---- MODULE Spec2Model ----
(***************************************************************************)
(* smartRecruiter: hybrid scoring, adaptive weight learning and the weight *)
(* store.  Scores and weights are Python floats in the source; here they   *)
(* are exact rationals <<numerator, denominator>> in lowest terms, so that *)
(* every normalisation, clamp and weighted sum is computed as the code     *)
(* computes it, without rounding noise.                                    *)
(***************************************************************************)
EXTENDS Integers, Sequences, FiniteSets, TLC

VARIABLES
    rows,       \* the scoring_weights table, in id order
    libs,       \* which of numpy and sklearn the process could import
    calls,      \* number of learner calls made
    last,       \* the last learner call and its result
    procs,      \* the request each worker is serving, and how far it is
    requests,   \* number of requests begun
    scoring,    \* the calculate_scores call under study, and its response
    applicants,     \* table applicants: the live record of each applicant
    applications,   \* table applications, with the decision columns
    recent,         \* the applications a decision was recorded for, latest first
    atDecision,     \* per application, the feedback sample at its first decision
    scored,         \* the last scoring made by an entry point
    decisions,      \* number of record_decision requests served
    rescores,       \* number of score_applicant requests served
    client,         \* the chat_completion call under study, attempt by attempt
    embedder,       \* the generate_embedding call under study
    audit,          \* the last fairness audit and its outcome
    metrics,        \* table fairness_metrics
    calc            \* the call of a stateless function under study, and its result

learnerVars == <<calls, last>>

raceVars == <<procs, requests>>

scoreVars == <<scoring>>

appVars == <<applicants, applications, recent, atDecision, scored, decisions, rescores>>

serviceVars == <<client, embedder, audit, metrics, calc>>

vars ==
    <<rows, libs, calls, last, procs, requests, scoring, applicants,
      applications, recent, atDecision, scored, decisions, rescores,
      client, embedder, audit, metrics, calc>>

(***************************************************************************)
(* Bounds of the model.                                                    *)
(***************************************************************************)
MaxCalls == 2

MaxRequests == 3

MaxDecisions == 2

MaxRescores == 1
\* rows of fairness_metrics the audit endpoint writes
MaxAudits == 2

(***************************************************************************)
(* Exact rational arithmetic.                                              *)
(***************************************************************************)
Abs(x) == IF x < 0 THEN -x ELSE x

\* An operand is an expression of its own, often a deep one: the operators
\* below bind it once (m, n, x, y) before they use it.
RECURSIVE GCD(_, _)
GCD(a, b) ==
    CHOOSE divisor \in {IF n = 0 THEN m ELSE GCD(n, m % n) : m \in {a}, n \in {b}} : TRUE

R(n, d) ==
    LET g == GCD(Abs(n), Abs(d))
        s == IF d < 0 THEN -1 ELSE 1
    IN  <<(s * n) \div g, (s * d) \div g>>

RInt(n) == <<n, 1>>
RAdd(a, b) ==
    CHOOSE total \in {LET g == GCD(x[2], y[2])
                      IN  R(x[1] * (y[2] \div g) + y[1] * (x[2] \div g),
                            (x[2] \div g) * y[2]) : x \in {a}, y \in {b}} : TRUE
RNeg(a) == CHOOSE negated \in {<<-x[1], x[2]>> : x \in {a}} : TRUE
RSub(a, b) == RAdd(a, RNeg(b))
RMul(a, b) ==
    CHOOSE product \in {<<p[1] * q[1], p[2] * q[2]>> :
                            p \in {R(x[1], y[2]) : x \in {a}, y \in {b}},
                            q \in {R(y[1], x[2]) : x \in {a}, y \in {b}}} : TRUE
RDiv(a, b) == RMul(a, CHOOSE inverse \in {R(y[2], y[1]) : y \in {b}} : TRUE)
RLe(a, b) == \E x \in {a}, y \in {b} : x[1] * y[2] <= y[1] * x[2]
RLt(a, b) == \E x \in {a}, y \in {b} : x[1] * y[2] < y[1] * x[2]
RAbs(a) == CHOOSE magnitude \in {<<Abs(x[1]), x[2]>> : x \in {a}} : TRUE
RMax(a, b) == CHOOSE larger \in {IF RLe(x, y) THEN y ELSE x : x \in {a}, y \in {b}} : TRUE
RMin(a, b) == CHOOSE smaller \in {IF RLe(x, y) THEN x ELSE y : x \in {a}, y \in {b}} : TRUE

(***************************************************************************)
(* Weight vectors.                                                         *)
(***************************************************************************)
WeightKeySet ==
    {"skill_weight", "experience_weight", "education_weight",
     "semantic_similarity_weight"}

\* The dict of the four weights, in the order the code writes them.
Weights(skill, experience, education, semantic) ==
    [skill_weight |-> skill, experience_weight |-> experience,
     education_weight |-> education, semantic_similarity_weight |-> semantic]

\* sum(weights.values())
SumValues(w) ==
    RAdd(RAdd(w.skill_weight, w.experience_weight),
         RAdd(w.education_weight, w.semantic_similarity_weight))

DEFAULT_WEIGHTS == Weights(R(4, 10), R(3, 10), R(1, 10), R(2, 10))

\* A NULL recruiter_id / job_id column, and the None argument.  The code tests
\* the ids by truthiness ("if recruiter_id and job_id"), so None and 0 select
\* the same branch.
NULL == 0

(***************************************************************************)
(* The Weight Store: query(ScoringWeights).filter(...).first()             *)
(***************************************************************************)
\* The filter the if/elif chain of get_weights and _save_weights builds.
ScopeFilter(recruiter_id, job_id) ==
    IF recruiter_id # NULL /\ job_id # NULL
    THEN [recruiter_id |-> recruiter_id, job_id |-> job_id]
    ELSE IF recruiter_id # NULL
    THEN [recruiter_id |-> recruiter_id, job_id |-> NULL]
    ELSE IF job_id # NULL
    THEN [recruiter_id |-> NULL, job_id |-> job_id]
    ELSE [recruiter_id |-> NULL, job_id |-> NULL]

Matching(tbl, recruiter_id, job_id) ==
    LET f == ScopeFilter(recruiter_id, job_id)
    IN  {i \in 1..Len(tbl) :
            /\ tbl[i].recruiter_id = f.recruiter_id
            /\ tbl[i].job_id = f.job_id}

Min(S) == CHOOSE x \in S : \A y \in S : x <= y

\* .first(): index of the first matching row, 0 when there is none.
First(tbl, recruiter_id, job_id) ==
    LET m == Matching(tbl, recruiter_id, job_id)
    IN  IF m = {} THEN 0 ELSE Min(m)

get_weights(tbl, recruiter_id, job_id) ==
    LET i == First(tbl, recruiter_id, job_id)
    IN  IF i # 0 THEN tbl[i].w ELSE DEFAULT_WEIGHTS

_save_weights(tbl, weights, recruiter_id, job_id) ==
    LET i == First(tbl, recruiter_id, job_id)
    IN  IF i # 0
        THEN [tbl EXCEPT ![i].w = weights,
                         ![i].iteration_count = tbl[i].iteration_count + 1]
        ELSE Append(tbl, [recruiter_id |-> recruiter_id, job_id |-> job_id,
                          w |-> weights, iteration_count |-> 1])

(***************************************************************************)
(* Feedback batches and the regression library.                            *)
(***************************************************************************)
Sample(h, ai, sk, ex, ed, se) ==
    [hired |-> h, ai_score |-> ai, skill_score |-> sk, experience_score |-> ex,
     education_score |-> ed, semantic_score |-> se]

Entry(h, ai, sk, ex, ed, se) ==
    Sample(h, RInt(ai), RInt(sk), RInt(ex), RInt(ed), RInt(se))

HiredStrong == Entry(TRUE, 90, 100, 80, 100, 90)
HiredWeak == Entry(TRUE, 55, 40, 70, 60, 50)
Rejected == Entry(FALSE, 40, 20, 60, 50, 70)

\* The feedback batches the calls are made with: empty, one sample, two
\* samples of both outcomes, two samples of one outcome, three samples.
Batches ==
    { <<>>, <<HiredStrong>>, <<HiredStrong, Rejected>>,
      <<HiredStrong, HiredWeak>>, <<Rejected, HiredWeak, HiredStrong>> }

\* A signal of an entry that is no number: the key is not in the dict, the
\* value is None, the value is a string that is no number.
Absent == <<>>
Null == <<"None">>
NonNumeric == <<"n/a">>

Numeric(v) == Len(v) = 2

\* entries built by other callers than collect_feedback_data
OnlyAiScore == Sample(TRUE, RInt(80), Absent, Absent, Absent, Absent)
NullSkill == Sample(TRUE, RInt(90), Null, RInt(80), RInt(100), RInt(90))
NullAiScore == Sample(FALSE, Null, RInt(20), RInt(60), RInt(50), RInt(70))
TextSemantic == Sample(FALSE, RInt(40), RInt(20), RInt(60), RInt(50), NonNumeric)

\* Batches of two and three samples with such entries.
MalformedBatches ==
    { <<OnlyAiScore, Rejected>>, <<NullSkill, Rejected>>,
      <<HiredStrong, NullAiScore>>, <<HiredStrong, TextSemantic>>,
      <<NullSkill, HiredWeak>>, <<HiredStrong, HiredWeak, NullAiScore>> }

\* learning_rate values in (0, 1]: the default 0.1 and the maximum 1.
LearningRates == {R(1, 10), R(1, 1)}

\* learning_rate values a caller can pass that are not in (0, 1]
OutOfRangeRates == {R(2, 1), R(0, 1), R(-1, 2)}

\* What LinearRegression().fit(X, y) leaves in model.coef_: the library is
\* opaque here, any coefficient vector may come back (signs included), or the
\* fit raises.
CoefChoices == {<<3, -1, 0, 1>>, <<0, 0, 0, 0>>}

FitOutcomes ==
    {[ok |-> TRUE, coef |-> c] : c \in CoefChoices}
        \cup {[ok |-> FALSE, coef |-> <<0, 0, 0, 0>>]}

\* (numpy, sklearn) importable: sklearn cannot be imported without numpy.
LibChoices ==
    {[numpy |-> TRUE, sklearn |-> TRUE], [numpy |-> TRUE, sklearn |-> FALSE],
     [numpy |-> FALSE, sklearn |-> FALSE]}

RecruiterIds == {NULL, 1}
JobIds == {NULL, 1}

(***************************************************************************)
(* AdaptiveWeightLearner                                                   *)
(***************************************************************************)
\* The minimum-sample check off by one: a single sample passes it.
TooFewOffByOne(feedback_data) == feedback_data = <<>> \/ Len(feedback_data) < 1

\* "if not feedback_data or len(feedback_data) < 2"
TooFew(feedback_data) == feedback_data = <<>> \/ Len(feedback_data) < 2

\* The renormalisation left out: the blended or clamped vector is stored as is.
NormalizeSkipped(w) == w

\* "total = sum(new_weights.values()); if total > 0: new_weights[key] /= total"
Normalize(w) ==
    LET total == SumValues(w)
    IN  IF RLt(RInt(0), total)
        THEN Weights(RDiv(w.skill_weight, total), RDiv(w.experience_weight, total),
                     RDiv(w.education_weight, total),
                     RDiv(w.semantic_similarity_weight, total))
        ELSE w

\* The absolute value left out of the numerators: coefficients / np.sum(np.abs(
\* coefficients)), so that a negative coefficient gives a negative share.
NormalizedCoefsSigned(coef) ==
    LET total == Abs(coef[1]) + Abs(coef[2]) + Abs(coef[3]) + Abs(coef[4])
    IN  IF total > 0
        THEN <<R(coef[1], total), R(coef[2], total),
               R(coef[3], total), R(coef[4], total)>>
        ELSE <<R(4, 10), R(3, 10), R(1, 10), R(2, 10)>>

\* np.abs(coefficients) / np.sum(np.abs(coefficients)), the defaults when 0.
NormalizedCoefs(coef) ==
    LET total == Abs(coef[1]) + Abs(coef[2]) + Abs(coef[3]) + Abs(coef[4])
    IN  IF total > 0
        THEN <<R(Abs(coef[1]), total), R(Abs(coef[2]), total),
               R(Abs(coef[3]), total), R(Abs(coef[4]), total)>>
        ELSE <<R(4, 10), R(3, 10), R(1, 10), R(2, 10)>>

\* current*(1 - learning_rate) + normalized_coefs[i]*learning_rate
Blend(current_weights, coef, learning_rate) ==
    LET nc == NormalizedCoefs(coef)
        keep == RSub(RInt(1), learning_rate)
        mix(cur, learned) == RAdd(RMul(cur, keep), RMul(learned, learning_rate))
    IN  Weights(mix(current_weights.skill_weight, nc[1]),
                mix(current_weights.experience_weight, nc[2]),
                mix(current_weights.education_weight, nc[3]),
                mix(current_weights.semantic_similarity_weight, nc[4]))

\* The entries of one outcome (hired or not): how many, and the sum of one of
\* their scores.
RECURSIVE CountOf(_, _)
CountOf(feedback_data, hired) ==
    IF feedback_data = <<>> THEN 0
    ELSE (IF Head(feedback_data).hired = hired THEN 1 ELSE 0)
             + CountOf(Tail(feedback_data), hired)

\* entry.get('ai_score', 0)
AiScore(entry) == IF entry.ai_score = Absent THEN RInt(0) ELSE entry.ai_score

\* the share of ai_score that stands in for a component score
Share ==
    [skill_score |-> R(4, 10), experience_score |-> R(3, 10),
     education_score |-> R(1, 10), semantic_score |-> R(2, 10)]

\* entry.get(field, ai_score * share)
Signal(entry, field) ==
    IF entry[field] = Absent THEN RMul(AiScore(entry), Share[field])
    ELSE entry[field]

\* `ai_score * 0.4` raises TypeError when ai_score is None or a string; it is
\* evaluated for every entry, whether or not the key is there
DefaultsRaise(feedback_data) ==
    \E i \in 1..Len(feedback_data) : ~Numeric(AiScore(feedback_data[i]))

\* every score appended to X, hired_scores or not_hired_scores is a number
AllNumeric(feedback_data) ==
    \A i \in 1..Len(feedback_data) :
        \A field \in DOMAIN Share : Numeric(Signal(feedback_data[i], field))

RECURSIVE SumOf(_, _, _)
SumOf(feedback_data, hired, field) ==
    IF feedback_data = <<>> THEN RInt(0)
    ELSE RAdd(IF Head(feedback_data).hired = hired
              THEN Signal(Head(feedback_data), field) ELSE RInt(0),
              SumOf(Tail(feedback_data), hired, field))

\* np.mean(hired_scores[...]) and np.mean(not_hired_scores[...])
Mean(feedback_data, hired, field) ==
    RDiv(SumOf(feedback_data, hired, field), RInt(CountOf(feedback_data, hired)))

\* The band each weight is clamped to by the rule-based update.
BandLow == Weights(R(1, 10), R(1, 10), R(5, 100), R(1, 10))

BandHigh == Weights(R(6, 10), R(6, 10), R(3, 10), R(5, 10))

\* max(lo, min(hi, current + diff * learning_rate / 100.0))
Adjusted(feedback_data, current_weights, learning_rate, numpy) ==
    LET diff(field) ==
            IF numpy
            THEN RSub(Mean(feedback_data, TRUE, field),
                      Mean(feedback_data, FALSE, field))
            ELSE RInt(0)
        adj(k, field) ==
            RMax(BandLow[k],
                 RMin(BandHigh[k],
                      RAdd(current_weights[k],
                           RDiv(RMul(diff(field), learning_rate), RInt(100)))))
    IN  Weights(adj("skill_weight", "skill_score"),
                adj("experience_weight", "experience_score"),
                adj("education_weight", "education_score"),
                adj("semantic_similarity_weight", "semantic_score"))

\* The result of a call: the table afterwards, the returned weights, the
\* path taken and whether _save_weights ran.
Outcome(tbl, ret, path, saved) ==
    [rows |-> tbl, ret |-> ret, path |-> path, saved |-> saved]

\* What a call decides before it touches the table again: the weights it
\* returns, the path taken, and whether and under which scope key it calls
\* _save_weights.
Plan(ret, path, saved, recruiter_id, job_id) ==
    [ret |-> ret, path |-> path, saved |-> saved,
     recruiter_id |-> recruiter_id, job_id |-> job_id]

\* The call left by an exception: nothing is returned, nothing is written.
RaisedPlan(current_weights) == Plan(current_weights, "raised", FALSE, NULL, NULL)

\* _simple_weight_update up to its _save_weights(new_weights, None, None),
\* and past it when the commit() in _save_weights raises (commits = FALSE).
\* Nothing in the function catches: the TypeError of `ai_score * 0.4`, the
\* TypeError of np.mean over a list with None or a string, and the error of
\* the commit all leave it, and leave update_weights with it.
SimplePlan(feedback_data, current_weights, learning_rate, numpy, commits) ==
    IF DefaultsRaise(feedback_data) THEN RaisedPlan(current_weights)
    ELSE IF CountOf(feedback_data, TRUE) > 0 /\ CountOf(feedback_data, FALSE) > 0
    THEN (IF numpy /\ ~AllNumeric(feedback_data) THEN RaisedPlan(current_weights)
          ELSE IF ~commits THEN RaisedPlan(current_weights)
          ELSE Plan(Normalize(Adjusted(feedback_data, current_weights,
                                       learning_rate, numpy)),
                    "fallback", TRUE, NULL, NULL))
    ELSE Plan(current_weights, "fallback_unchanged", FALSE, NULL, NULL)

\* update_weights up to its _save_weights(new_weights, recruiter_id, job_id);
\* current_weights is what get_weights returned at line 131 or 134.
\* Everything raised inside the try (by `ai_score * 0.4`, by fit on a matrix
\* with None or a string, by the commit of _save_weights) is caught at line
\* 207 and answered with _simple_weight_update.
UpdatePlan(current_weights, feedback_data, recruiter_id, job_id, learning_rate, lib, fit, commits) ==
    IF TooFew(feedback_data)
    THEN Plan(current_weights, "too_few", FALSE, NULL, NULL)
    ELSE IF ~lib.sklearn \/ ~lib.numpy
    THEN SimplePlan(feedback_data, current_weights, learning_rate, lib.numpy, commits)
    ELSE IF /\ ~DefaultsRaise(feedback_data)
            /\ AllNumeric(feedback_data)
            /\ fit.ok
            /\ commits
    THEN Plan(Normalize(Blend(current_weights, fit.coef, learning_rate)),
              "regression", TRUE, recruiter_id, job_id)
    ELSE SimplePlan(feedback_data, current_weights, learning_rate, lib.numpy, commits)

NoPlan == Plan(DEFAULT_WEIGHTS, "none", FALSE, NULL, NULL)

\* The call run to its end on table tbl.
Execute(tbl, plan) ==
    Outcome(IF plan.saved
            THEN _save_weights(tbl, plan.ret, plan.recruiter_id, plan.job_id)
            ELSE tbl,
            plan.ret, plan.path, plan.saved)

_simple_weight_update(tbl, feedback_data, current_weights, learning_rate, numpy, commits) ==
    Execute(tbl, SimplePlan(feedback_data, current_weights, learning_rate, numpy, commits))

update_weights(tbl, feedback_data, recruiter_id, job_id, learning_rate, lib, fit, commits) ==
    Execute(tbl, UpdatePlan(get_weights(tbl, recruiter_id, job_id), feedback_data,
                            recruiter_id, job_id, learning_rate, lib, fit, commits))

(***************************************************************************)
(* Embeddings and similarity (ai/embeddings).  An embedding is a short     *)
(* integer vector whose norm is an integer, so that the cosine is an exact *)
(* rational; two dimensions stand for the 3072 of the service.             *)
(***************************************************************************)
\* [0.0] * self.embedding_dim
ZeroEmbedding == <<0, 0>>

\* generate_embedding: service is the outcome of client.embeddings.create
generate_embedding(text, service) ==
    IF text = "" THEN ZeroEmbedding
    ELSE IF service.ok THEN service.embedding
    ELSE ZeroEmbedding

RECURSIVE Dot(_, _)
Dot(a, b) ==
    IF a = <<>> \/ b = <<>> THEN 0
    ELSE Head(a) * Head(b) + Dot(Tail(a), Tail(b))

Sqrt(n) == CHOOSE r \in 0..n : r * r = n

\* cosine_similarity: raises ValueError on embeddings of different lengths
cosine_similarity(embedding1, embedding2) ==
    IF embedding1 = <<>> \/ embedding2 = <<>>
    THEN [raised |-> FALSE, value |-> RInt(0)]
    ELSE IF Len(embedding1) # Len(embedding2)
    THEN [raised |-> TRUE, value |-> RInt(0)]
    ELSE LET norm1 == Sqrt(Dot(embedding1, embedding1))
             norm2 == Sqrt(Dot(embedding2, embedding2))
         IN  IF norm1 = 0 \/ norm2 = 0
             THEN [raised |-> FALSE, value |-> RInt(0)]
             ELSE [raised |-> FALSE,
                   value |-> R(Dot(embedding1, embedding2), norm1 * norm2)]

\* (similarity + 1) * 50
calculate_match_score(resume_embedding, job_embedding) ==
    LET similarity == cosine_similarity(resume_embedding, job_embedding)
    IN  [raised |-> similarity.raised,
         value |-> RMul(RAdd(similarity.value, RInt(1)), RInt(50))]

(***************************************************************************)
(* Rounding: round(x, 2), half to even on the exact value.                 *)
(***************************************************************************)
Round2(a) ==
    CHOOSE rounded \in
        {LET f == x[1] \div x[2]
             twice == 2 * (x[1] - f * x[2])
         IN  IF twice < x[2] THEN R(f, 100)
             ELSE IF twice > x[2] THEN R(f + 1, 100)
             ELSE IF f % 2 = 0 THEN R(f, 100)
             ELSE R(f + 1, 100) : x \in {RMul(a, RInt(100))}} : TRUE

\* combine_scores with the weights of the two scores exchanged
CombineSwapped(semantic_score, llm_score, semantic_weight) ==
    LET llm_weight == RSub(RInt(1), semantic_weight)
        combined == RAdd(RMul(llm_weight, semantic_score),
                         RMul(semantic_weight, llm_score))
    IN  Round2(combined)

\* combine_scores (ai/utils.py)
combine_scores(semantic_score, llm_score, semantic_weight) ==
    LET llm_weight == RSub(RInt(1), semantic_weight)
        combined == RAdd(RMul(semantic_weight, semantic_score),
                         RMul(llm_weight, llm_score))
    IN  Round2(combined)

(***************************************************************************)
(* The feature scorers of ScoringService.  A text is the set of the words  *)
(* in it; `a in b` on strings is Within(a, b).                             *)
(***************************************************************************)
Within(a, b) == a = b \/ <<a, b>> \in {<<"java", "javascript">>}

Mentions(text, keyword) == \E word \in text : Within(keyword, word)

\* some of the 47 skill_keywords
skill_keywords == {"python", "java", "javascript", "sql"}

_calculate_skill_score(applicant_skills, job_description, job_requirements) ==
    IF applicant_skills = {} THEN RInt(0)
    ELSE LET job_text == job_description \cup job_requirements
             required_skills == {skill \in skill_keywords : Mentions(job_text, skill)}
             matched_skills ==
                 Cardinality({req_skill \in required_skills :
                     \E app_skill \in applicant_skills :
                         Within(req_skill, app_skill) \/ Within(app_skill, req_skill)})
         IN  IF required_skills = {} THEN RInt(50)
             ELSE RMin(RMul(R(matched_skills, Cardinality(required_skills)),
                            RInt(100)),
                       RInt(100))

ExperienceKeywords == {"developer", "engineer", "software", "programming", "coding"}

_calculate_experience_score(experience_years, work_experience, job_description) ==
    LET years == IF experience_years >= 5 THEN 40
                 ELSE IF experience_years >= 3 THEN 30
                 ELSE IF experience_years >= 1 THEN 20
                 ELSE 10
        relevant_experiences ==
            Cardinality({i \in 1..Len(work_experience) :
                \E keyword \in ExperienceKeywords :
                    Mentions({work_experience[i].title,
                              work_experience[i].description}, keyword)})
        score == IF work_experience # <<>>
                 THEN RAdd(RInt(years),
                           RMul(R(relevant_experiences, Len(work_experience)),
                                RInt(60)))
                 ELSE RInt(years)
    IN  RMin(score, RInt(100))

DegreeKeywords == {"bachelor", "master", "phd", "degree", "university", "college"}

FieldKeywords ==
    {"computer", "software", "engineering", "science", "technology",
     "information", "data", "math", "statistics"}

_calculate_education_score(education, job_description) ==
    IF education = <<>> THEN RInt(0)
    ELSE IF ~(\E keyword \in DegreeKeywords : Mentions(job_description, keyword))
    THEN RInt(50)
    ELSE IF \E i \in 1..Len(education) :
                \E keyword \in FieldKeywords : Mentions({education[i].degree}, keyword)
    THEN RInt(100)
    ELSE RInt(60)

(***************************************************************************)
(* The reasoning service: OpenAIClient.chat_completion and                 *)
(* CandidateEvaluator.  A response is what the text parses to: a JSON      *)
(* object with a value per score field, another JSON value, or text that   *)
(* is not JSON, with what the pattern "field":\s*(\d+) finds in it.        *)
(***************************************************************************)
max_retries == 3

\* self.retry_delay = 1.0, in seconds
retry_delay == 1

\* wait_time = self.retry_delay * (2 ** attempt), the same before every retry
WaitTimeFlat(attempt) == retry_delay

\* wait_time = self.retry_delay * (2 ** attempt)
wait_time(attempt) == retry_delay * (2 ^ attempt)

\* the values of a field of a response
Num(n, d) == [t |-> "num", v |-> R(n, d)]
NotANumber == [t |-> "str", v |-> RInt(0)]
Missing == [t |-> "missing", v |-> RInt(0)]
Digits(n) == [t |-> "digits", v |-> RInt(n)]
NoMatch == [t |-> "nomatch", v |-> RInt(0)]

\* the empty string: no JSON, and nothing for the patterns to find
NoResponse ==
    [kind |-> "text", overall_score |-> NoMatch, experience_score |-> NoMatch,
     skill_score |-> NoMatch]

\* the loop of chat_completion from attempt `attempt` on; outcomes[i] is the
\* outcome of the i-th call of chat.completions.create
RECURSIVE Attempts(_, _)
Attempts(outcomes, attempt) ==
    IF attempt >= max_retries
    THEN [raised |-> FALSE, response |-> NoResponse]
    ELSE IF outcomes[attempt + 1].ok
    THEN [raised |-> FALSE, response |-> outcomes[attempt + 1].response]
    ELSE IF attempt < max_retries - 1
    THEN Attempts(outcomes, attempt + 1)
    ELSE [raised |-> TRUE, response |-> NoResponse]

chat_completion(outcomes) == Attempts(outcomes, 0)

\* int(x), towards zero
Trunc(a) == IF a[1] >= 0 THEN a[1] \div a[2] ELSE -((-a[1]) \div a[2])

\* _normalize_score(result.get(field, 50))
_normalize_score(score) ==
    IF score.t = "num"
    THEN (IF Trunc(score.v) > 100 THEN 100
          ELSE IF Trunc(score.v) < 0 THEN 0
          ELSE Trunc(score.v))
    ELSE 50

\* int(match.group(1)) if match else 50
Salvaged(field) == IF field.t = "digits" THEN field.v[1] ELSE 50

Judgment(overall_score, experience_score, skill_score, llm_available) ==
    [overall_score |-> overall_score, experience_score |-> experience_score,
     skill_score |-> skill_score, llm_available |-> llm_available]

\* _parse_llm_response; a JSON value that is not an object has no .get and
\* the AttributeError leaves the function
_parse_llm_response(response) ==
    IF response.kind = "json"
    THEN [raised |-> FALSE,
          result |-> Judgment(_normalize_score(response.overall_score),
                              _normalize_score(response.experience_score),
                              _normalize_score(response.skill_score), FALSE)]
    ELSE IF response.kind = "text"
    THEN [raised |-> FALSE,
          result |-> Judgment(Salvaged(response.overall_score),
                              Salvaged(response.experience_score),
                              Salvaged(response.skill_score), FALSE)]
    ELSE [raised |-> TRUE, result |-> Judgment(50, 50, 50, FALSE)]

evaluate_candidate(use_llm, outcomes) ==
    IF ~use_llm THEN Judgment(50, 50, 50, FALSE)
    ELSE LET completion == chat_completion(outcomes)
         IN  IF completion.raised THEN Judgment(50, 50, 50, FALSE)
             ELSE LET parsed == _parse_llm_response(completion.response)
                  IN  IF parsed.raised THEN Judgment(50, 50, 50, FALSE)
                      ELSE [parsed.result EXCEPT !.llm_available = TRUE]

(***************************************************************************)
(* ScoringService.calculate_scores                                         *)
(***************************************************************************)
\* self.semantic_weight = 0.5
semantic_weight == R(1, 2)

\* the weights of the `else` and `except` branches of stage 4
FixedWeights == Weights(R(30, 100), R(25, 100), R(10, 100), R(35, 100))

WeightedOverall(hybrid_skill, hybrid_experience, education_score, hybrid_overall, weights) ==
    RAdd(RAdd(RMul(hybrid_skill, weights.skill_weight),
              RMul(hybrid_experience, weights.experience_weight)),
         RAdd(RMul(education_score, weights.education_weight),
              RMul(hybrid_overall, weights.semantic_similarity_weight)))

Raised == [raised |-> TRUE]

\* tbl: the scoring_weights table.  in: the arguments (candidate, job,
\* recruiter_id, job_id, use_adaptive_weights), self.db ("none", or a session
\* whose query works, "ok", or raises, "error"), and the outcomes of the
\* service calls made on the way.
calculate_scores(tbl, in) ==
    LET resume_embedding == generate_embedding(in.candidate.resume_text, in.resume_service)
        job_embedding ==
            generate_embedding(IF in.job.description = {} THEN "" ELSE "job", in.job_service)
        semantic_match_score == calculate_match_score(resume_embedding, job_embedding)
        semantic_skill_score ==
            _calculate_skill_score(in.candidate.skills, in.job.description,
                                   in.job.requirements)
        semantic_experience_score ==
            _calculate_experience_score(in.candidate.experience_years,
                                        in.candidate.work_experience,
                                        in.job.description)
        semantic_education_score ==
            _calculate_education_score(in.candidate.education, in.job.description)
        llm_evaluation == evaluate_candidate(in.use_llm, in.chat)
        llm_overall == RInt(llm_evaluation.overall_score)
        llm_experience == RInt(llm_evaluation.experience_score)
        llm_skill == RInt(llm_evaluation.skill_score)
        hybrid_overall == combine_scores(semantic_match_score.value, llm_overall, semantic_weight)
        hybrid_skill == combine_scores(semantic_skill_score, llm_skill, semantic_weight)
        hybrid_experience ==
            combine_scores(semantic_experience_score, llm_experience, semantic_weight)
        education_score == semantic_education_score
        weights ==
            IF in.use_adaptive_weights /\ in.db = "ok"
            THEN get_weights(tbl, in.recruiter_id, in.job_id)
            ELSE FixedWeights
        overall_score ==
            WeightedOverall(hybrid_skill, hybrid_experience, education_score,
                            hybrid_overall, weights)
    IN  IF semantic_match_score.raised THEN Raised
        ELSE [raised |-> FALSE,
              match_score |-> Round2(hybrid_overall),
              skill_score |-> Round2(hybrid_skill),
              experience_score |-> Round2(hybrid_experience),
              education_score |-> Round2(education_score),
              overall_score |-> Round2(overall_score),
              score_breakdown |->
                  [semantic |-> [match |-> Round2(semantic_match_score.value),
                                 skill |-> Round2(semantic_skill_score),
                                 experience |-> Round2(semantic_experience_score)],
                   llm |-> [overall |-> Round2(llm_overall),
                            skill |-> Round2(llm_skill),
                            experience |-> Round2(llm_experience),
                            available |-> llm_evaluation.llm_available],
                   hybrid |-> [match |-> Round2(hybrid_overall),
                               skill |-> Round2(hybrid_skill),
                               experience |-> Round2(hybrid_experience)]]]

(***************************************************************************)
(* Inputs of the scoring calls.                                            *)
(***************************************************************************)
Developer == [title |-> "developer", description |-> "backend"]
Chef == [title |-> "chef", description |-> "kitchen"]

Candidate(resume_text, skills, experience_years, education, work_experience) ==
    [resume_text |-> resume_text, skills |-> skills,
     experience_years |-> experience_years, education |-> education,
     work_experience |-> work_experience]

Senior ==
    Candidate("cv", {"python", "javascript"}, 6, <<[degree |-> "computer"]>>,
              <<Developer>>)
Junior == Candidate("cv", {"java"}, 2, <<[degree |-> "history"]>>, <<Chef, Developer>>)
Blank == Candidate("", {}, 0, <<>>, <<>>)

Candidates == {Senior, Junior, Blank}

Jobs ==
    {[description |-> {"python", "java", "sql", "degree"}, requirements |-> {"javascript"}],
     [description |-> {"sales"}, requirements |-> {}]}

Failed == [ok |-> FALSE, embedding |-> ZeroEmbedding]
Embedded(embedding) == [ok |-> TRUE, embedding |-> embedding]

ResumeServices == {Failed, Embedded(<<1, 0>>), Embedded(<<3, 4>>)}
JobServices == {Failed, Embedded(<<1, 0>>), Embedded(<<-1, 0>>), Embedded(<<0, 1>>)}

Response(kind, overall_score, experience_score, skill_score) ==
    [kind |-> kind, overall_score |-> overall_score,
     experience_score |-> experience_score, skill_score |-> skill_score]

\* a well-formed answer; an object with values out of range, fractional or
\* not numeric; an object without the fields; a JSON value that is no object
JsonGood == Response("json", Num(85, 1), Num(70, 1), Num(90, 1))
JsonOdd == Response("json", Num(150, 1), Num(-41, 2), NotANumber)
JsonBare == Response("json", Missing, Missing, Num(857, 10))
JsonScalar == Response("json_value", Missing, Missing, Missing)
\* text that is not JSON: with scores the pattern finds, with a number above
\* 100, with nothing to find
TextSome == Response("text", Digits(85), NoMatch, Digits(60))
TextBig == Response("text", Digits(250), Digits(70), NoMatch)
TextNone == Response("text", NoMatch, NoMatch, NoMatch)

Responses == {JsonGood, JsonOdd, JsonBare, JsonScalar, TextSome, TextBig, TextNone}

Error == [ok |-> FALSE, response |-> NoResponse]
Answer(response) == [ok |-> TRUE, response |-> response]

\* the outcomes of the (up to max_retries) calls of one chat_completion
ChatRuns ==
    {<<Error, Error, Error>>}
        \cup {<<Answer(r), Error, Error>> : r \in Responses}
        \cup {<<Error, Error, Answer(r)>> : r \in {JsonGood, TextNone}}

Learned == Weights(R(1, 2), R(1, 4), R(1, 8), R(1, 8))

Row(recruiter_id, job_id, w) ==
    [recruiter_id |-> recruiter_id, job_id |-> job_id, w |-> w, iteration_count |-> 1]

Tables == {<<>>, <<Row(1, 1, Learned)>>, <<Row(NULL, NULL, Learned), Row(1, NULL, DEFAULT_WEIGHTS)>>}

ScoreInput(candidate, job, resume_service, job_service, use_llm, chat, db, recruiter_id, job_id, use_adaptive_weights) ==
    [candidate |-> candidate, job |-> job, resume_service |-> resume_service,
     job_service |-> job_service, use_llm |-> use_llm, chat |-> chat,
     db |-> db, recruiter_id |-> recruiter_id, job_id |-> job_id,
     use_adaptive_weights |-> use_adaptive_weights]

\* the evaluator without or with an API key, and what the calls return
LlmChoices ==
    {[use_llm |-> FALSE, chat |-> <<Error, Error, Error>>]}
        \cup {[use_llm |-> TRUE, chat |-> c] : c \in ChatRuns}

\* ScoringService() without a session; ScoringService(db) with scope
\* arguments, the store working or failing; use_adaptive_weights=False
StoreChoices ==
    {[db |-> "none", recruiter_id |-> NULL, job_id |-> NULL, use_adaptive_weights |-> TRUE]}
        \cup {[db |-> d, recruiter_id |-> r, job_id |-> j, use_adaptive_weights |-> TRUE] :
                 d \in {"ok", "error"}, r \in RecruiterIds, j \in JobIds}
        \cup {[db |-> "ok", recruiter_id |-> 1, job_id |-> 1, use_adaptive_weights |-> FALSE]}

ScoreInputs ==
    {ScoreInput(c, j, rs, js, llm.use_llm, llm.chat, st.db, st.recruiter_id,
                st.job_id, st.use_adaptive_weights) :
        c \in Candidates, j \in Jobs, rs \in ResumeServices, js \in JobServices,
        llm \in LlmChoices, st \in StoreChoices}

NoScoring ==
    [pc |-> "idle",
     in |-> ScoreInput(Blank, [description |-> {}, requirements |-> {}], Failed,
                       Failed, FALSE, <<Error, Error, Error>>, "none",
                       NULL, NULL, FALSE),
     out |-> Raised]

(***************************************************************************)
(* Applicants, applications and the feedback they give                     *)
(* (models.Applicant, models.Application, collect_feedback_data).          *)
(***************************************************************************)
\* the applications, one per applying user; each one's applicant record, if
\* any, has the same id
AppIds == {1, 2}

\* the job applied to, and the recruiter who owns it
TheJob ==
    [id |-> 1, recruiter_id |-> 1,
     description |-> {"python", "java", "sql", "degree"},
     requirements |-> {"javascript"}]

\* Column defaults: the scores 0.0, the decision columns NULL
None == <<>>

NoApplicant ==
    [exists |-> FALSE, candidate |-> Blank, match_score |-> RInt(0),
     skill_score |-> RInt(0), experience_score |-> RInt(0),
     education_score |-> RInt(0), overall_score |-> RInt(0)]

NoApplication ==
    [exists |-> FALSE, applicant_id |-> NULL, hire_decision |-> None,
     ai_score_at_decision |-> None]

\* x or 0
OrZero(x) == IF x = None THEN RInt(0) ELSE x[1]

\* the rows the query of collect_feedback_data selects
Selected(apps, a, recruiter_id, job_id) ==
    /\ apps[a].exists
    /\ apps[a].applicant_id # NULL
    /\ apps[a].hire_decision # None
    /\ apps[a].ai_score_at_decision # None
    /\ recruiter_id # NULL => TheJob.recruiter_id = recruiter_id
    /\ job_id # NULL => TheJob.id = job_id

Take(seq, limit) == IF Len(seq) <= limit THEN seq ELSE SubSeq(seq, 1, limit)

RECURSIVE FeedbackOf(_, _, _)
FeedbackOf(ids, apps, appl) ==
    IF ids = <<>> THEN <<>>
    ELSE LET app == apps[Head(ids)]
             applicant == appl[app.applicant_id]
         IN  (IF applicant.exists
              THEN <<[ai_score |-> OrZero(app.ai_score_at_decision),
                      hired |-> app.hire_decision = <<TRUE>>,
                      skill_score |-> applicant.skill_score,
                      experience_score |-> applicant.experience_score,
                      education_score |-> applicant.education_score,
                      semantic_score |-> applicant.match_score,
                      application_id |-> Head(ids)]>>
              ELSE <<>>) \o FeedbackOf(Tail(ids), apps, appl)

\* order is the applications by updated_at, latest first
collect_feedback_data(apps, appl, order, recruiter_id, job_id, limit) ==
    FeedbackOf(Take(SelectSeq(order, LAMBDA a : Selected(apps, a, recruiter_id, job_id)),
                    limit),
               apps, appl)

\* what the services do during one scoring
Situation(resume_service, job_service, use_llm, chat) ==
    [resume_service |-> resume_service, job_service |-> job_service,
     use_llm |-> use_llm, chat |-> chat]

Situations ==
    {Situation(Embedded(<<1, 0>>), Embedded(<<1, 0>>), TRUE, <<Answer(JsonGood), Error, Error>>),
     Situation(Failed, Failed, TRUE, <<Error, Error, Error>>)}

AppCandidates == {Senior, Junior}

\* the call the entry points make: the module-level ScoringService(), which
\* has no session, and no recruiter_id, job_id or use_adaptive_weights
\* argument
EntryPointInput(candidate, sit) ==
    ScoreInput(candidate, [description |-> TheJob.description,
                           requirements |-> TheJob.requirements],
               sit.resume_service, sit.job_service, sit.use_llm, sit.chat,
               "none", NULL, NULL, TRUE)

\* applicant.match_score = scores["match_score"] and so on
WithScores(applicant, scores) ==
    [applicant EXCEPT !.match_score = scores.match_score,
                      !.skill_score = scores.skill_score,
                      !.experience_score = scores.experience_score,
                      !.education_score = scores.education_score,
                      !.overall_score = scores.overall_score]

NotScored == [op |-> "none", id |-> 0, stored |-> None, out |-> Raised]

\* the vector stored for the scope of the job, if one is
StoredFor(tbl, recruiter_id, job_id) ==
    IF First(tbl, recruiter_id, job_id) = 0 THEN None
    ELSE <<tbl[First(tbl, recruiter_id, job_id)].w>>

Without(seq, a) == SelectSeq(seq, LAMBDA x : x # a)

(***************************************************************************)
(* The learner on its own: calls of update_weights and get_weights.        *)
(***************************************************************************)
(* Fairness audit (ai/evaluation/fairness_checker.py, routers/fairness.py).*)
(* A candidate record has the keys "group" and "overall_score"; a key that *)
(* is there holds <<name>> for the group and a number for the score.       *)
(***************************************************************************)
Scored(group, score) == [group |-> <<group>>, overall_score |-> RInt(score)]

NoGroup(score) == [group |-> Absent, overall_score |-> RInt(score)]

NoScore(group) == [group |-> <<group>>, overall_score |-> Absent]

\* The batches the checker is called with: none and one record, two groups
\* far apart and close, a record without score, a record without group, no
\* record with a group, a score that is a string.
AuditBatches ==
    { <<>>, <<Scored("a", 85)>>,
      <<Scored("a", 85), Scored("a", 82), Scored("b", 67), Scored("b", 65)>>,
      <<Scored("a", 75), Scored("b", 72)>>,
      <<Scored("a", 90), Scored("b", 50), NoScore("c")>>,
      <<Scored("a", 90), Scored("b", 50), NoGroup(70)>>,
      <<NoGroup(90), NoGroup(50)>>,
      <<Scored("a", 90), [group |-> <<"b">>, overall_score |-> NonNumeric]>> }

\* threshold: float = 10.0
threshold == RInt(10)

\* pass_threshold=70.0
pass_threshold == RInt(70)

HasKey(record, key) == record[key] # Absent

\* key in df.columns: pd.DataFrame(candidate_data) has a column for every key
\* of any record, NaN where a record lacks it
InColumns(candidate_data, key) ==
    \E i \in 1..Len(candidate_data) : HasKey(candidate_data[i], key)

\* the records of every group counted for each group
MembersAll(candidate_data, group_key, score_key, g) ==
    SelectSeq(candidate_data, LAMBDA r : HasKey(r, group_key) /\ HasKey(r, score_key))

\* the records groupby(group_key)[score_key] puts in group g and counts in
\* its mean: a NaN group key drops the record, a NaN score is skipped
Members(candidate_data, group_key, score_key, g) ==
    SelectSeq(candidate_data,
              LAMBDA r : r[group_key] = <<g>> /\ HasKey(r, score_key))

RECURSIVE SumScores(_, _)
SumScores(members, score_key) ==
    IF members = <<>> THEN RInt(0)
    ELSE RAdd(Head(members)[score_key], SumScores(Tail(members), score_key))

\* group_stats['mean'], over the groups that have one
GroupMeans(candidate_data, group_key, score_key) ==
    LET groups == {candidate_data[i][group_key][1] :
                      i \in {j \in 1..Len(candidate_data) :
                                HasKey(candidate_data[j], group_key)}}
        measured == {g \in groups :
                        Members(candidate_data, group_key, score_key, g) # <<>>}
    IN  {RDiv(SumScores(Members(candidate_data, group_key, score_key, g), score_key),
              RInt(Len(Members(candidate_data, group_key, score_key, g)))) :
            g \in measured}

\* bias_magnitude = float(group_means.max() - group_means.min())
MeanDifference(candidate_data, group_key, score_key) ==
    LET means == GroupMeans(candidate_data, group_key, score_key)
        highest == CHOOSE m \in means : \A x \in means : RLe(x, m)
        lowest == CHOOSE m \in means : \A x \in means : RLe(m, x)
    IN  RSub(highest, lowest)

\* What an audit returns: which return statement made it, bias_detected,
\* bias_magnitude, whether group_analysis is filled, whether the key
\* "message" is there and which text it holds, statistical_significance.
Report(kind, bias_detected, bias_magnitude, analysed, text, statistical_significance) ==
    [kind |-> kind, bias_detected |-> bias_detected,
     bias_magnitude |-> bias_magnitude, analysed |-> analysed,
     message |-> text # "none", text |-> text,
     statistical_significance |-> statistical_significance]

NoReport == Report("none", FALSE, RInt(0), FALSE, "none", RInt(0))

\* float("nan"): what 1 - p_value is when the test has no answer
NaN == <<"nan">>

\* round(x, 3), half to even on the exact value; round(nan, 3) is nan
Round3(a) ==
    IF a = NaN THEN NaN
    ELSE CHOOSE rounded \in
             {LET f == x[1] \div x[2]
                  twice == 2 * (x[1] - f * x[2])
              IN  IF twice < x[2] THEN R(f, 1000)
                  ELSE IF twice > x[2] THEN R(f + 1, 1000)
                  ELSE IF f % 2 = 0 THEN R(f, 1000)
                  ELSE R(f + 1, 1000) : x \in {RMul(a, RInt(1000))}} : TRUE

\* the index of group_stats: the group keys of the records that have one
Groups(candidate_data, group_key) ==
    {candidate_data[i][group_key][1] :
        i \in {j \in 1..Len(candidate_data) : HasKey(candidate_data[j], group_key)}}

\* group_stats.loc[g, 'mean'] of a group that has a score
GroupMean(candidate_data, group_key, score_key, g) ==
    RDiv(SumScores(Members(candidate_data, group_key, score_key, g), score_key),
         RInt(Len(Members(candidate_data, group_key, score_key, g))))

\* group_means.idxmax() and idxmin(): the first group, in the order of the
\* index, whose mean is m.  groupby sorts the keys; the batches name their
\* groups in that order.
IdxOf(candidate_data, group_key, score_key, m) ==
    LET at == Min({i \in 1..Len(candidate_data) :
                      /\ HasKey(candidate_data[i], group_key)
                      /\ Members(candidate_data, group_key, score_key,
                                 candidate_data[i][group_key][1]) # <<>>
                      /\ GroupMean(candidate_data, group_key, score_key,
                                   candidate_data[i][group_key][1]) = m})
    IN  candidate_data[at][group_key][1]

\* df[df[group_key] == g][score_key].values: the scores of the records of
\* the group, NaN (Absent) where a record has none
ScoresOf(candidate_data, group_key, score_key, g) ==
    LET of == SelectSeq(candidate_data, LAMBDA r : r[group_key] = <<g>>)
    IN  [i \in 1..Len(of) |-> of[i][score_key]]

HasNaN(scores) == \E i \in 1..Len(scores) : scores[i] = Absent

Constant(scores) == \A i, j \in 1..Len(scores) : scores[i] = scores[j]

RECURSIVE SumSeq(_)
SumSeq(scores) ==
    IF scores = <<>> THEN RInt(0) ELSE RAdd(Head(scores), SumSeq(Tail(scores)))

\* np.mean(scores) of scores without NaN
MeanOf(scores) == RDiv(SumSeq(scores), RInt(Len(scores)))

\* p_value of stats.ttest_ind(max_scores, min_scores), on two samples of 2 or
\* more: NaN propagates; two constant samples divide by a zero deviation (NaN
\* for equal means, p = 0 for different ones); a sample against itself gives
\* p = 1; on other data the p-value the library computes, p_value.
ttest_ind(max_scores, min_scores, p_value) ==
    IF HasNaN(max_scores) \/ HasNaN(min_scores) THEN NaN
    ELSE IF Constant(max_scores) /\ Constant(min_scores)
    THEN (IF MeanOf(max_scores) = MeanOf(min_scores) THEN NaN ELSE RInt(0))
    ELSE IF max_scores = min_scores THEN RInt(1)
    ELSE p_value

\* min(0.95, abs(mean_diff) / 100.0): np.mean of a sample with NaN is NaN,
\* and min(0.95, nan) is 0.95
Proxy(max_scores, min_scores) ==
    IF HasNaN(max_scores) \/ HasNaN(min_scores) THEN R(95, 100)
    ELSE RMin(R(95, 100),
              RDiv(RAbs(RSub(MeanOf(max_scores), MeanOf(min_scores))), RInt(100)))

\* statistical_significance before rounding (lines 109-135); scipy says
\* whether "from scipy import stats" succeeds.  numpy is there whenever
\* pandas is, and the bare except needs a test that raises on numbers:
\* both branches that answer 0.5 for those are left out.
Significance(candidate_data, group_key, score_key, scipy, p_value) ==
    IF Cardinality(Groups(candidate_data, group_key)) >= 2
    THEN LET means == GroupMeans(candidate_data, group_key, score_key)
             highest == CHOOSE m \in means : \A x \in means : RLe(x, m)
             lowest == CHOOSE m \in means : \A x \in means : RLe(m, x)
             max_scores == ScoresOf(candidate_data, group_key, score_key,
                               IdxOf(candidate_data, group_key, score_key, highest))
             min_scores == ScoresOf(candidate_data, group_key, score_key,
                               IdxOf(candidate_data, group_key, score_key, lowest))
         IN  IF Len(max_scores) > 1 /\ Len(min_scores) > 1
             THEN (IF scipy
                   THEN (IF ttest_ind(max_scores, min_scores, p_value) = NaN
                         THEN NaN
                         ELSE RSub(RInt(1), ttest_ind(max_scores, min_scores, p_value)))
                   ELSE Proxy(max_scores, min_scores))
             ELSE R(1, 2)
    ELSE R(1, 2)

\* FairnessChecker._generate_message: which of its two texts
_generate_message(bias_detected) ==
    IF bias_detected THEN "potential_bias" ELSE "no_significant_bias"

\* FairnessChecker.audit_fairness; pandas is PANDAS_AVAILABLE.  groupby().agg
\* raises on a column with a string in it, and the except branch answers
\* with a result that has "error" and no "message".
audit_fairness(candidate_data, group_key, score_key, limit, pandas, scipy, p_value) ==
    IF candidate_data = <<>> \/ Len(candidate_data) < 2
    THEN Report("too_few", FALSE, RInt(0), FALSE, "need_two", RInt(0))
    ELSE IF ~pandas
    THEN Report("no_pandas", FALSE, RInt(0), FALSE, "no_pandas", RInt(0))
    ELSE IF ~InColumns(candidate_data, group_key) \/ ~InColumns(candidate_data, score_key)
    THEN Report("missing_columns", FALSE, RInt(0), FALSE, "missing_columns", RInt(0))
    ELSE IF \E i \in 1..Len(candidate_data) :
                HasKey(candidate_data[i], score_key)
                    /\ ~Numeric(candidate_data[i][score_key])
    THEN Report("error", FALSE, RInt(0), FALSE, "none", RInt(0))
    ELSE LET difference == MeanDifference(candidate_data, group_key, score_key)
         IN  Report("analysis", RLt(limit, difference), Round2(difference),
                    TRUE, _generate_message(RLt(limit, difference)),
                    Round3(Significance(candidate_data, group_key, score_key,
                                        scipy, p_value)))

\* the pass rate of group g at pass_limit: the share of its records that
\* score pass_limit or more
PassRate(candidate_data, group_key, score_key, pass_limit, g) ==
    LET members == Members(candidate_data, group_key, score_key, g)
    IN  R(Len(SelectSeq(members, LAMBDA r : RLe(pass_limit, r[score_key]))),
          Len(members))

\* FairnessChecker.comprehensive_fairness_audit, which the endpoint calls:
\* the audit, on records that all have both keys, with the mean score
\* difference and the disparate impact ratio (lowest pass rate of a group
\* over the highest, at pass_limit); its significance is the bounded proxy.
comprehensive_fairness_audit(candidate_data, group_key, score_key, limit, pass_limit) ==
    IF \/ Len(candidate_data) < 2
       \/ \E i \in 1..Len(candidate_data) :
              \/ ~HasKey(candidate_data[i], group_key)
              \/ ~HasKey(candidate_data[i], score_key)
              \/ ~Numeric(candidate_data[i][score_key])
    THEN [disparate_impact_ratio |-> RInt(1), mean_score_difference |-> RInt(0)]
            @@ Report("insufficient", FALSE, RInt(0), FALSE, "insufficient", RInt(0))
    ELSE LET difference == MeanDifference(candidate_data, group_key, score_key)
             groups == Groups(candidate_data, group_key)
             rate(g) == PassRate(candidate_data, group_key, score_key, pass_limit, g)
             best == CHOOSE x \in {rate(g) : g \in groups} :
                         \A g \in groups : RLe(rate(g), x)
             worst == CHOOSE x \in {rate(g) : g \in groups} :
                          \A g \in groups : RLe(x, rate(g))
         IN  [disparate_impact_ratio |->
                 IF best = RInt(0) THEN RInt(1) ELSE RDiv(worst, best),
              mean_score_difference |-> Round2(difference)]
                @@ Report("analysis", RLt(limit, difference), Round2(difference),
                          TRUE, _generate_message(RLt(limit, difference)),
                          Round3(RMin(R(95, 100), RDiv(difference, RInt(100)))))

\* stem_keywords of the endpoint
stem_keywords == {"computer", "engineering", "science", "technology", "math", "statistics"}

\* the group the endpoint puts an applicant in, by education
GroupOf(applicant) ==
    IF applicant.candidate.education = <<>> THEN "no_education"
    ELSE IF \E i \in 1..Len(applicant.candidate.education) :
                applicant.candidate.education[i].degree \in stem_keywords
    THEN "stem"
    ELSE "non_stem"

\* candidate_data of the endpoint: one record per applicant row, in id order
RECURSIVE CandidateData(_, _)
CandidateData(appl, a) ==
    IF a \notin DOMAIN appl THEN <<>>
    ELSE (IF appl[a].exists
          THEN <<[group |-> <<GroupOf(appl[a])>>,
                  overall_score |-> appl[a].overall_score]>>
          ELSE <<>>) \o CandidateData(appl, a + 1)

\* FairnessMetric(...) written to the table of the scoring weights
FairnessMetricAsWeights(job_id, result, candidate_count) ==
    [table |-> "scoring_weights", job_id |-> job_id,
     bias_magnitude |-> result.bias_magnitude,
     bias_detected |-> result.bias_detected,
     disparate_impact_ratio |-> result.disparate_impact_ratio,
     candidate_count |-> candidate_count]

\* FairnessMetric(...): __tablename__ = "fairness_metrics"
FairnessMetric(job_id, result, candidate_count) ==
    [table |-> "fairness_metrics", job_id |-> job_id,
     bias_magnitude |-> result.bias_magnitude,
     bias_detected |-> result.bias_detected,
     disparate_impact_ratio |-> result.disparate_impact_ratio,
     candidate_count |-> candidate_count]

\* db.commit(): every object added to the session is inserted into the table
\* of its class
CommitPending(tbl, pending, table) ==
    tbl \o SelectSeq(pending, LAMBDA object : object.table = table)

NoAudit ==
    [pandas |-> TRUE, op |-> "none", records |-> <<>>, status |-> "none",
     result |-> NoReport, calls |-> 0, scipy |-> TRUE, limit |-> threshold,
     p_value |-> R(1, 20)]

(***************************************************************************)
\* The server's workers: each handles one request at a time, on a database
\* session of its own.
Workers == {1, 2}

Idle ==
    [pc |-> "idle", recruiter_id |-> NULL, job_id |-> NULL,
     fit |-> [ok |-> FALSE, coef |-> <<0, 0, 0, 0>>], learning_rate |-> RInt(0),
     plan |-> NoPlan, loaded |-> {}, target |-> 0, seen |-> <<>>]

NoCall ==
    [op |-> "none", recruiter_id |-> NULL, job_id |-> NULL, n |-> 0,
     before |-> <<>>, ret |-> DEFAULT_WEIGHTS, path |-> "none", saved |-> FALSE,
     feedback_data |-> <<>>, learning_rate |-> RInt(0),
     fit |-> [ok |-> FALSE, coef |-> <<0, 0, 0, 0>>], commits |-> TRUE]

\* The record of an update_weights call and of what came of it.
Called(tbl, feedback_data, recruiter_id, job_id, learning_rate, fit, commits, out) ==
    [op |-> "update_weights", recruiter_id |-> recruiter_id, job_id |-> job_id,
     n |-> Len(feedback_data), before |-> tbl, ret |-> out.ret,
     path |-> out.path, saved |-> out.saved, feedback_data |-> feedback_data,
     learning_rate |-> learning_rate, fit |-> fit, commits |-> commits]

NoClient ==
    [pc |-> "idle", outcomes |-> <<>>, attempt |-> 0, created |-> 0,
     slept |-> <<>>, raised |-> FALSE, response |-> NoResponse,
     judgment |-> Judgment(50, 50, 50, FALSE)]

NoEmbedder ==
    [pc |-> "idle", text |-> "", outcomes |-> <<>>, created |-> 0,
     embedding |-> ZeroEmbedding]

\* No call of the reasoning client, the vectorizer or the auditor is under
\* study.
\* no call of a stateless function made
NoCalc ==
    [pc |-> "idle", op |-> "none", semantic_score |-> RInt(0),
     llm_score |-> RInt(0), semantic_weight |-> RInt(0), embedding1 |-> <<>>,
     embedding2 |-> <<>>, out |-> [raised |-> FALSE, value |-> RInt(0)]]

Quiet ==
    /\ client = NoClient
    /\ embedder = NoEmbedder
    /\ audit = NoAudit
    /\ metrics = <<>>
    /\ calc = NoCalc

Init ==
    /\ rows = <<>>
    /\ libs \in LibChoices
    /\ calls = 0
    /\ last = NoCall
    /\ procs = [p \in Workers |-> Idle]
    /\ requests = 0
    /\ scoring = NoScoring
    /\ applicants = [a \in AppIds |-> NoApplicant]
    /\ applications = [a \in AppIds |-> NoApplication]
    /\ recent = <<>>
    /\ atDecision = [a \in AppIds |-> None]
    /\ scored = NotScored
    /\ decisions = 0
    /\ rescores = 0
    /\ Quiet

UpdateWeights ==
    /\ calls < MaxCalls
    /\ \E feedback_data \in Batches, recruiter_id \in RecruiterIds,
          job_id \in JobIds, learning_rate \in LearningRates,
          fit \in FitOutcomes :
          \E out \in {update_weights(rows, feedback_data, recruiter_id, job_id,
                                     learning_rate, libs, fit, TRUE)} :
              /\ rows' = out.rows
              /\ last' = Called(rows, feedback_data, recruiter_id, job_id,
                                learning_rate, fit, TRUE, out)
    /\ calls' = calls + 1
    /\ UNCHANGED <<libs, raceVars, scoreVars, serviceVars, appVars>>

GetWeights ==
    /\ calls < MaxCalls
    /\ \E recruiter_id \in RecruiterIds, job_id \in JobIds :
          last' = [NoCall EXCEPT
                      !.op = "get_weights", !.recruiter_id = recruiter_id,
                      !.job_id = job_id, !.before = rows,
                      !.ret = get_weights(rows, recruiter_id, job_id)]
    /\ calls' = calls + 1
    /\ UNCHANGED <<rows, libs, raceVars, scoreVars, serviceVars, appVars>>

Next == UpdateWeights \/ GetWeights

\* update_weights called with batches whose signals are malformed or missing,
\* and with a database whose commit may fail.
FaultBatches == MalformedBatches \cup {<<HiredStrong, Rejected>>, <<HiredStrong, HiredWeak>>}

FaultFits == {[ok |-> TRUE, coef |-> <<3, -1, 0, 1>>], [ok |-> FALSE, coef |-> <<0, 0, 0, 0>>]}

UpdateWeightsFaulty ==
    /\ calls < MaxCalls
    /\ \E feedback_data \in FaultBatches, recruiter_id \in RecruiterIds,
          job_id \in JobIds, fit \in FaultFits, commits \in BOOLEAN :
          \E out \in {update_weights(rows, feedback_data, recruiter_id, job_id,
                                     R(1, 10), libs, fit, commits)} :
              /\ rows' = out.rows
              /\ last' = Called(rows, feedback_data, recruiter_id, job_id,
                                R(1, 10), fit, commits, out)
    /\ calls' = calls + 1
    /\ UNCHANGED <<libs, raceVars, scoreVars, serviceVars, appVars>>

NextFault == UpdateWeightsFaulty

SpecFault == Init /\ [][NextFault]_vars

\* update_weights called with any learning_rate the caller passes:
\* submit_feedback hands request.learning_rate on as it is.
AnyRates == LearningRates \cup OutOfRangeRates

RateBatches == {<<HiredStrong, Rejected>>, <<Rejected, HiredWeak, HiredStrong>>}

UpdateWeightsAnyRate ==
    /\ calls < MaxCalls
    /\ \E feedback_data \in RateBatches, recruiter_id \in RecruiterIds,
          job_id \in JobIds, learning_rate \in AnyRates, fit \in FitOutcomes :
          \E out \in {update_weights(rows, feedback_data, recruiter_id, job_id,
                                     learning_rate, libs, fit, TRUE)} :
              /\ rows' = out.rows
              /\ last' = Called(rows, feedback_data, recruiter_id, job_id,
                                learning_rate, fit, TRUE, out)
    /\ calls' = calls + 1
    /\ UNCHANGED <<libs, raceVars, scoreVars, serviceVars, appVars>>

NextRate == UpdateWeightsAnyRate

SpecRate == Init /\ [][NextRate]_vars

Spec == Init /\ [][Next]_vars

(***************************************************************************)
(* Concurrent requests.  feedback.submit_feedback and                      *)
(* feedback.record_decision call update_weights on the request's own       *)
(* Session (database.get_db); nothing in the code locks the scope or       *)
(* upserts, so the statements of two workers interleave: the SELECT of     *)
(* get_weights, the SELECT of _save_weights, and the flush at commit().    *)
(***************************************************************************)
\* Scopes of the racing requests: submit_feedback passes a recruiter id
\* always (request.recruiter_id or current_user.id) and an optional job id.
RaceScopes == {<<1, 1>>, <<1, NULL>>}

RaceBatch == <<HiredStrong, Rejected>>

RaceRates == {R(1, 10)}

\* The row object a session holds once a query has returned the row: its
\* attributes are the ones read then (a later query of the same session
\* returns the same object and does not refresh it).
Snapshot(tbl, i) == [id |-> i, w |-> tbl[i].w,
                     iteration_count |-> tbl[i].iteration_count]

LoadedIds(loaded) == {x.id : x \in loaded}

Load(loaded, tbl, i) ==
    IF i = 0 \/ i \in LoadedIds(loaded) THEN loaded
    ELSE loaded \cup {Snapshot(tbl, i)}

Loaded(loaded, i) == CHOOSE x \in loaded : x.id = i

\* The UPDATE the flush emits: the columns whose assigned value differs from
\* the value the session had loaded; iteration_count is the loaded value + 1.
Flush(row, snap, weights) ==
    LET col(k) == IF weights[k] # snap.w[k] THEN weights[k] ELSE row.w[k]
    IN  [row EXCEPT
            !.w = Weights(col("skill_weight"), col("experience_weight"),
                          col("education_weight"),
                          col("semantic_similarity_weight")),
            !.iteration_count = snap.iteration_count + 1]

\* update_weights lines 129-200: get_weights and the computation.
Begin(p) ==
    /\ requests < MaxRequests
    /\ procs[p].pc \in {"idle", "done"}
    /\ \E scope \in RaceScopes, learning_rate \in RaceRates, fit \in FitOutcomes :
          \E plan \in {UpdatePlan(get_weights(rows, scope[1], scope[2]),
                                  RaceBatch, scope[1], scope[2], learning_rate,
                                  libs, fit, TRUE)} :
              procs' = [procs EXCEPT ![p] =
                  [pc |-> IF plan.saved THEN "computed" ELSE "done",
                   recruiter_id |-> scope[1], job_id |-> scope[2], fit |-> fit,
                   learning_rate |-> learning_rate, plan |-> plan,
                   loaded |-> Load({}, rows, First(rows, scope[1], scope[2])),
                   target |-> 0, seen |-> rows]]
    /\ requests' = requests + 1
    /\ UNCHANGED <<rows, libs, learnerVars, scoreVars, serviceVars, appVars>>

\* _save_weights lines 286-307: the query for the record to update.
Find(p) ==
    /\ procs[p].pc = "computed"
    /\ \E i \in {First(rows, procs[p].plan.recruiter_id, procs[p].plan.job_id)} :
          procs' = [procs EXCEPT ![p].pc = "found", ![p].target = i,
                                 ![p].loaded = Load(procs[p].loaded, rows, i)]
    /\ UNCHANGED <<rows, libs, requests, learnerVars, scoreVars, serviceVars, appVars>>

\* _save_weights lines 309-329: update the record found or add a new one,
\* and commit.
Commit(p) ==
    /\ procs[p].pc = "found"
    /\ rows' =
          IF procs[p].target # 0
          THEN [rows EXCEPT ![procs[p].target] =
                   Flush(rows[procs[p].target],
                         Loaded(procs[p].loaded, procs[p].target),
                         procs[p].plan.ret)]
          ELSE Append(rows, [recruiter_id |-> procs[p].plan.recruiter_id,
                             job_id |-> procs[p].plan.job_id,
                             w |-> procs[p].plan.ret, iteration_count |-> 1])
    /\ procs' = [procs EXCEPT ![p].pc = "done"]
    /\ UNCHANGED <<libs, requests, learnerVars, scoreVars, serviceVars, appVars>>

NextRace == \E p \in Workers : Begin(p) \/ Find(p) \/ Commit(p)

SpecRace == Init /\ [][NextRace]_vars

(***************************************************************************)
(* One call of calculate_scores, for every input of ScoreInputs and every  *)
(* table of Tables.                                                        *)
(***************************************************************************)
InitScore ==
    /\ rows \in Tables
    /\ libs = [numpy |-> TRUE, sklearn |-> TRUE]
    /\ calls = 0
    /\ last = NoCall
    /\ procs = [p \in Workers |-> Idle]
    /\ requests = 0
    /\ scoring \in {[pc |-> "called", in |-> i, out |-> Raised] : i \in ScoreInputs}
    /\ applicants = [a \in AppIds |-> NoApplicant]
    /\ applications = [a \in AppIds |-> NoApplication]
    /\ recent = <<>>
    /\ atDecision = [a \in AppIds |-> None]
    /\ scored = NotScored
    /\ decisions = 0
    /\ rescores = 0
    /\ Quiet

CalculateScores ==
    /\ scoring.pc = "called"
    /\ scoring' = [scoring EXCEPT !.pc = "returned",
                                  !.out = calculate_scores(rows, scoring.in)]
    /\ UNCHANGED <<rows, libs, learnerVars, raceVars, serviceVars, appVars>>

NextScore == CalculateScores

SpecScore == InitScore /\ [][NextScore]_vars

(***************************************************************************)
(* The application: applying, re-scoring and recording decisions on the    *)
(* applications of one job (routers applications, applicants, feedback).   *)
(***************************************************************************)
\* apply_to_job: with a resume file the applicant record is created and
\* scored; the application is created either way
ApplyToJob(a) ==
    /\ ~applications[a].exists
    /\ \E file \in BOOLEAN, candidate \in AppCandidates, sit \in Situations :
          \E scores \in {calculate_scores(rows, EntryPointInput(candidate, sit))} :
              /\ applicants' =
                    IF file
                    THEN [applicants EXCEPT ![a] =
                             IF scores.raised
                             THEN [NoApplicant EXCEPT !.exists = TRUE,
                                                      !.candidate = candidate]
                             ELSE WithScores([NoApplicant EXCEPT
                                                 !.exists = TRUE,
                                                 !.candidate = candidate],
                                             scores)]
                    ELSE applicants
              /\ applications' =
                    [applications EXCEPT ![a] =
                        [NoApplication EXCEPT
                            !.exists = TRUE,
                            !.applicant_id = IF file THEN a ELSE NULL]]
              /\ scored' =
                    IF file
                    THEN [op |-> "apply_to_job", id |-> a,
                          stored |-> StoredFor(rows, TheJob.recruiter_id, TheJob.id),
                          out |-> scores]
                    ELSE scored
    /\ UNCHANGED <<rows, libs, learnerVars, raceVars, scoreVars, serviceVars, recent,
                   atDecision, decisions, rescores>>

\* score_applicant: the scores of the live record are overwritten
ScoreApplicant(a) ==
    /\ rescores < MaxRescores
    /\ applicants[a].exists
    /\ \E sit \in Situations :
          \E scores \in {calculate_scores(rows, EntryPointInput(applicants[a].candidate, sit))} :
              /\ ~scores.raised
              /\ applicants' = [applicants EXCEPT ![a] = WithScores(@, scores)]
              /\ scored' = [op |-> "score_applicant", id |-> a,
                            stored |-> StoredFor(rows, TheJob.recruiter_id, TheJob.id),
                            out |-> scores]
    /\ rescores' = rescores + 1
    /\ UNCHANGED <<rows, libs, learnerVars, raceVars, scoreVars, serviceVars, applications,
                   recent, atDecision, decisions>>

\* record_decision by the recruiter of the job: the decision and the score
\* at decision are written and committed, then the feedback is collected and
\* update_weights runs on it when it has two samples or more
RecordDecision(a) ==
    /\ decisions < MaxDecisions
    /\ applications[a].exists
    /\ \E hired \in BOOLEAN, fit \in FitOutcomes :
          LET decided ==
                  [applications EXCEPT
                      ![a].hire_decision = <<hired>>,
                      ![a].ai_score_at_decision =
                          IF applications[a].applicant_id # NULL
                          THEN <<applicants[applications[a].applicant_id].overall_score>>
                          ELSE None]
              order == <<a>> \o Without(recent, a)
          IN  \E feedback_data \in {collect_feedback_data(decided, applicants, order,
                                        TheJob.recruiter_id, TheJob.id, 20)} :
                  /\ applications' = decided
                  /\ recent' = order
                  /\ rows' =
                        IF Len(feedback_data) >= 2
                        THEN update_weights(rows, feedback_data, TheJob.recruiter_id,
                                            TheJob.id, R(1, 10), libs, fit, TRUE).rows
                        ELSE rows
                  /\ atDecision' =
                        IF atDecision[a] = None
                        THEN [atDecision EXCEPT ![a] =
                                 SelectSeq(feedback_data,
                                           LAMBDA e : e.application_id = a)]
                        ELSE atDecision
    /\ decisions' = decisions + 1
    /\ UNCHANGED <<libs, learnerVars, raceVars, scoreVars, serviceVars, applicants, scored,
                   rescores>>

NextApp == \E a \in AppIds : ApplyToJob(a) \/ ScoreApplicant(a) \/ RecordDecision(a)

SpecApp == Init /\ [][NextApp]_vars

(***************************************************************************)
(* Properties of the learner and the Weight Store (specification Spec).    *)
(***************************************************************************)
(* One call of OpenAIClient.chat_completion by evaluate_candidate, attempt *)
(* by attempt, for every sequence of outcomes of chat.completions.create.  *)
(***************************************************************************)
ChatOutcomes == {Error} \cup {Answer(r) : r \in Responses}

InitChat ==
    /\ rows = <<>>
    /\ libs = [numpy |-> TRUE, sklearn |-> TRUE]
    /\ calls = 0
    /\ last = NoCall
    /\ procs = [p \in Workers |-> Idle]
    /\ requests = 0
    /\ scoring = NoScoring
    /\ applicants = [a \in AppIds |-> NoApplicant]
    /\ applications = [a \in AppIds |-> NoApplication]
    /\ recent = <<>>
    /\ atDecision = [a \in AppIds |-> None]
    /\ scored = NotScored
    /\ decisions = 0
    /\ rescores = 0
    /\ client \in {[NoClient EXCEPT !.pc = "create", !.outcomes = o] :
                       o \in [1..max_retries -> ChatOutcomes]}
    /\ embedder = NoEmbedder
    /\ audit = NoAudit
    /\ metrics = <<>>
    /\ calc = NoCalc

\* One pass of the loop `for attempt in range(self.max_retries)`: the call of
\* chat.completions.create, then the return of its content, the decision to
\* retry, or the raise; after the last pass, `return ""`.
Create ==
    /\ client.pc = "create"
    /\ client' =
          IF client.attempt >= max_retries
          THEN [client EXCEPT !.pc = "returned", !.response = NoResponse]
          ELSE IF client.outcomes[client.attempt + 1].ok
          THEN [client EXCEPT !.pc = "returned", !.created = @ + 1,
                    !.response = client.outcomes[client.attempt + 1].response]
          ELSE IF client.attempt < max_retries - 1
          THEN [client EXCEPT !.pc = "sleep", !.created = @ + 1]
          ELSE [client EXCEPT !.pc = "raised", !.created = @ + 1,
                              !.raised = TRUE]
    /\ UNCHANGED <<rows, libs, learnerVars, raceVars, scoreVars, appVars,
                   embedder, audit, metrics, calc>>

\* time.sleep(wait_time), then the next pass
Sleep ==
    /\ client.pc = "sleep"
    /\ client' = [client EXCEPT !.pc = "create", !.attempt = @ + 1,
                                !.slept = Append(@, wait_time(client.attempt))]
    /\ UNCHANGED <<rows, libs, learnerVars, raceVars, scoreVars, appVars,
                   embedder, audit, metrics, calc>>

\* evaluate_candidate after chat_completion: parse what it returned, or
\* catch what it raised
Evaluate ==
    /\ client.pc \in {"returned", "raised"}
    /\ client' =
          [client EXCEPT
              !.pc = "done",
              !.judgment =
                  IF client.raised THEN Judgment(50, 50, 50, FALSE)
                  ELSE LET parsed == _parse_llm_response(client.response)
                       IN  IF parsed.raised THEN Judgment(50, 50, 50, FALSE)
                           ELSE [parsed.result EXCEPT !.llm_available = TRUE]]
    /\ UNCHANGED <<rows, libs, learnerVars, raceVars, scoreVars, appVars,
                   embedder, audit, metrics, calc>>

NextChat == Create \/ Sleep \/ Evaluate

\* the calls are synchronous: a call that can continue does
SpecChat == InitChat /\ [][NextChat]_vars /\ WF_vars(NextChat)

(***************************************************************************)
(* One call of vectorizer.generate_embedding, as stage 1 of                *)
(* calculate_scores makes it.  outcomes[i] is what the i-th call of        *)
(* client.embeddings.create would give, were it made.                      *)
(***************************************************************************)
EmbedOutcomes == {Failed, Embedded(<<1, 0>>), Embedded(<<3, 4>>), Embedded(<<0, 1>>)}

EmbedTexts == {"cv", ""}

InitEmbed ==
    /\ rows = <<>>
    /\ libs = [numpy |-> TRUE, sklearn |-> TRUE]
    /\ calls = 0
    /\ last = NoCall
    /\ procs = [p \in Workers |-> Idle]
    /\ requests = 0
    /\ scoring = NoScoring
    /\ applicants = [a \in AppIds |-> NoApplicant]
    /\ applications = [a \in AppIds |-> NoApplication]
    /\ recent = <<>>
    /\ atDecision = [a \in AppIds |-> None]
    /\ scored = NotScored
    /\ decisions = 0
    /\ rescores = 0
    /\ client = NoClient
    /\ embedder \in {[NoEmbedder EXCEPT !.pc = "called", !.text = t, !.outcomes = o] :
                         t \in EmbedTexts, o \in [1..max_retries -> EmbedOutcomes]}
    /\ audit = NoAudit
    /\ metrics = <<>>
    /\ calc = NoCalc

\* generate_embedding: the text check, then one embeddings.create inside one
\* try; there is no loop around it
GenerateEmbedding ==
    /\ embedder.pc = "called"
    /\ embedder' =
          [embedder EXCEPT
              !.pc = "returned",
              !.created = IF embedder.text = "" THEN 0 ELSE 1,
              !.embedding = generate_embedding(embedder.text, embedder.outcomes[1])]
    /\ UNCHANGED <<rows, libs, learnerVars, raceVars, scoreVars, appVars,
                   client, audit, metrics, calc>>

NextEmbed == GenerateEmbedding

SpecEmbed == InitEmbed /\ [][NextEmbed]_vars

(***************************************************************************)
(* Fairness audits, next to weight updates and a scoring call.  The        *)
(* applicants of the job have applied and been scored before.              *)
(***************************************************************************)
\* the applicant row apply_to_job leaves for a candidate
Applied(candidate, sit) ==
    WithScores([NoApplicant EXCEPT !.exists = TRUE, !.candidate = candidate],
               calculate_scores(<<>>, EntryPointInput(candidate, sit)))

Scorable == Situation(Embedded(<<1, 0>>), Embedded(<<1, 0>>), TRUE, <<Answer(JsonGood), Error, Error>>)

Unreachable == Situation(Failed, Failed, TRUE, <<Error, Error, Error>>)

\* table applicants: two applicants of different groups, one applicant, two
\* of the same group
AuditedApplicants ==
    { <<Applied(Senior, Scorable), Applied(Junior, Unreachable)>>,
      <<Applied(Senior, Scorable), NoApplicant>>,
      <<Applied(Junior, Scorable), Applied(Junior, Unreachable)>> }

\* the scoring call made while audits run: it names the scope of the job
AuditScoreInput ==
    ScoreInput(Senior, [description |-> TheJob.description,
                        requirements |-> TheJob.requirements],
               Embedded(<<1, 0>>), Embedded(<<1, 0>>), FALSE,
               <<Error, Error, Error>>, "ok", TheJob.recruiter_id, TheJob.id, TRUE)

InitAudit ==
    /\ rows = <<>>
    /\ libs = [numpy |-> TRUE, sklearn |-> TRUE]
    /\ calls = 0
    /\ last = NoCall
    /\ procs = [p \in Workers |-> Idle]
    /\ requests = 0
    /\ scoring = [pc |-> "called", in |-> AuditScoreInput, out |-> Raised]
    /\ applicants \in AuditedApplicants
    /\ applications =
          [a \in AppIds |->
              IF applicants[a].exists
              THEN [NoApplication EXCEPT !.exists = TRUE, !.applicant_id = a]
              ELSE NoApplication]
    /\ recent = <<>>
    /\ atDecision = [a \in AppIds |-> None]
    /\ scored = NotScored
    /\ decisions = 0
    /\ rescores = 0
    /\ client = NoClient
    /\ embedder = NoEmbedder
    /\ audit \in {[NoAudit EXCEPT !.pandas = p] : p \in BOOLEAN}
    /\ metrics = <<>>
    /\ calc = NoCalc

\* a direct call of FairnessChecker.audit_fairness
AuditFairness ==
    /\ \E candidate_data \in AuditBatches :
          audit' = [audit EXCEPT
                       !.op = "audit_fairness", !.records = candidate_data,
                       !.status = "returned", !.calls = calls,
                       !.result = audit_fairness(candidate_data, "group",
                                                 "overall_score", threshold,
                                                 audit.pandas, audit.scipy,
                                                 audit.p_value)]
    /\ UNCHANGED <<rows, libs, learnerVars, raceVars, scoreVars, appVars,
                   client, embedder, metrics, calc>>

\* POST /fairness/audit: the job, its applicants, the audit, and the row of
\* fairness_metrics; a failing commit of that row is caught and printed
AuditEndpoint ==
    /\ Len(metrics) < MaxAudits
    /\ \E job_id \in {TheJob.id, 2}, commits \in BOOLEAN :
          LET candidate_data == CandidateData(applicants, 1)
              result == comprehensive_fairness_audit(candidate_data, "group",
                            "overall_score", threshold, pass_threshold)
              pending == <<FairnessMetric(job_id, result, Len(candidate_data))>>
          IN  IF job_id # NULL /\ job_id # TheJob.id
              THEN /\ audit' = [audit EXCEPT
                                   !.op = "endpoint", !.records = <<>>,
                                   !.status = "http_404", !.calls = calls,
                                   !.result = NoReport]
                   /\ UNCHANGED <<rows, metrics>>
              ELSE IF Len(candidate_data) < 2
              THEN /\ audit' = [audit EXCEPT
                                   !.op = "endpoint", !.records = candidate_data,
                                   !.status = "http_400", !.calls = calls,
                                   !.result = NoReport]
                   /\ UNCHANGED <<rows, metrics>>
              ELSE /\ audit' = [audit EXCEPT
                                   !.op = "endpoint", !.records = candidate_data,
                                   !.status = "returned", !.calls = calls,
                                   !.result = result]
                   /\ rows' = IF commits
                              THEN CommitPending(rows, pending, "scoring_weights")
                              ELSE rows
                   /\ metrics' = IF commits
                                 THEN CommitPending(metrics, pending, "fairness_metrics")
                                 ELSE metrics
    /\ UNCHANGED <<libs, learnerVars, raceVars, scoreVars, appVars, client,
                   embedder, calc>>

\* record_decision for the job, while audits run: update_weights for the
\* scope of the job
FeedbackUpdate ==
    /\ calls < MaxCalls
    /\ \E fit \in FaultFits :
          \E out \in {update_weights(rows, RaceBatch, TheJob.recruiter_id,
                                     TheJob.id, R(1, 10), libs, fit, TRUE)} :
              /\ rows' = out.rows
              /\ last' = Called(rows, RaceBatch, TheJob.recruiter_id, TheJob.id,
                                R(1, 10), fit, TRUE, out)
    /\ calls' = calls + 1
    /\ UNCHANGED <<libs, raceVars, scoreVars, serviceVars, appVars>>

NextAudit == AuditFairness \/ AuditEndpoint \/ FeedbackUpdate \/ CalculateScores

SpecAudit == InitAudit /\ [][NextAudit]_vars

(***************************************************************************)
(* The fairness checker on its own: one audit of a batch of records, with  *)
(* the threshold, the libraries that are installed and the p-value the     *)
(* t-test gives on data that is not degenerate.                            *)
(***************************************************************************)
\* a record whose score has decimals
ScoredAt(group, score) == [group |-> <<group>>, overall_score |-> score]

\* The batches of AuditBatches, and: the data of the tests, one group only,
\* the same score everywhere, constant groups that differ, a difference of
\* exactly 10, a difference of 10.004, groups that all pass, a record without
\* score in the highest group, groups of equal means.
CheckerBatches ==
    AuditBatches \cup
    { <<Scored("a", 85), Scored("a", 80), Scored("b", 70), Scored("b", 65)>>,
      <<Scored("a", 85), Scored("a", 70)>>,
      <<Scored("a", 70), Scored("a", 70), Scored("b", 70), Scored("b", 70)>>,
      <<Scored("a", 90), Scored("a", 90), Scored("b", 50), Scored("b", 50)>>,
      <<Scored("a", 80), Scored("b", 70)>>,
      <<ScoredAt("a", R(80004, 1000)), Scored("b", 70)>>,
      <<Scored("a", 90), Scored("a", 80), Scored("b", 75), Scored("b", 71)>>,
      <<Scored("a", 90), NoScore("a"), Scored("b", 50), Scored("b", 40)>>,
      <<Scored("a", 80), Scored("a", 60), Scored("b", 70), Scored("b", 70)>> }

\* threshold values a caller passes: the default, zero, a negative one
Thresholds == {threshold, RInt(0), RInt(-5)}

\* PANDAS_AVAILABLE and whether scipy can be imported; pandas brings numpy
CheckerLibs ==
    { [pandas |-> TRUE, scipy |-> TRUE], [pandas |-> TRUE, scipy |-> FALSE],
      [pandas |-> FALSE, scipy |-> FALSE] }

\* p-values of the t-test on data that is not degenerate
PValues == {R(1, 20), R(3, 10)}

InitChecker ==
    /\ rows = <<>>
    /\ libs = [numpy |-> TRUE, sklearn |-> TRUE]
    /\ calls = 0
    /\ last = NoCall
    /\ procs = [p \in Workers |-> Idle]
    /\ requests = 0
    /\ scoring = NoScoring
    /\ applicants = [a \in AppIds |-> NoApplicant]
    /\ applications = [a \in AppIds |-> NoApplication]
    /\ recent = <<>>
    /\ atDecision = [a \in AppIds |-> None]
    /\ scored = NotScored
    /\ decisions = 0
    /\ rescores = 0
    /\ client = NoClient
    /\ embedder = NoEmbedder
    /\ audit \in {[NoAudit EXCEPT !.status = "called", !.records = b,
                                  !.limit = t, !.pandas = l.pandas,
                                  !.scipy = l.scipy, !.p_value = p] :
                     b \in CheckerBatches, t \in Thresholds, l \in CheckerLibs,
                     p \in PValues}
    /\ metrics = <<>>
    /\ calc = NoCalc

\* checker.audit_fairness(candidate_data, threshold=...)
Audit ==
    /\ audit.status = "called"
    /\ audit' = [audit EXCEPT
                    !.op = "audit_fairness", !.status = "returned",
                    !.result = audit_fairness(audit.records, "group",
                                   "overall_score", audit.limit, audit.pandas,
                                   audit.scipy, audit.p_value)]
    /\ UNCHANGED <<rows, libs, learnerVars, raceVars, scoreVars, appVars,
                   client, embedder, metrics, calc>>

\* checker.comprehensive_fairness_audit(candidate_data, threshold=...,
\* pass_threshold=70.0)
ComprehensiveAudit ==
    /\ audit.status = "called"
    /\ audit' = [audit EXCEPT
                    !.op = "comprehensive", !.status = "returned",
                    !.result = comprehensive_fairness_audit(audit.records,
                                   "group", "overall_score", audit.limit,
                                   pass_threshold)]
    /\ UNCHANGED <<rows, libs, learnerVars, raceVars, scoreVars, appVars,
                   client, embedder, metrics, calc>>

NextChecker == Audit \/ ComprehensiveAudit

SpecChecker == InitChecker /\ [][NextChecker]_vars

(***************************************************************************)
(* The stateless functions on their own: one call of combine_scores, of    *)
(* cosine_similarity or of calculate_match_score, on arguments drawn from  *)
(* the sets below.                                                         *)
(***************************************************************************)
\* scores from 0 to 100, with no, two and three decimals
CombineScoreValues ==
    {RInt(0), RInt(100), RInt(80), RInt(60), R(7438, 100), R(33333, 1000)}

\* semantic_weight from 0 to 1
CombineWeights == {RInt(0), RInt(1), R(1, 2), R(3, 10)}

\* embeddings: none, of zeros, of one, two and three dimensions
Embeddings ==
    {<<>>, ZeroEmbedding, <<1, 0>>, <<0, 1>>, <<3, 4>>, <<-1, 0>>, <<1>>, <<0, 0, 0>>}

InitCalc ==
    /\ rows = <<>>
    /\ libs = [numpy |-> TRUE, sklearn |-> TRUE]
    /\ calls = 0
    /\ last = NoCall
    /\ procs = [p \in Workers |-> Idle]
    /\ requests = 0
    /\ scoring = NoScoring
    /\ applicants = [a \in AppIds |-> NoApplicant]
    /\ applications = [a \in AppIds |-> NoApplication]
    /\ recent = <<>>
    /\ atDecision = [a \in AppIds |-> None]
    /\ scored = NotScored
    /\ decisions = 0
    /\ rescores = 0
    /\ client = NoClient
    /\ embedder = NoEmbedder
    /\ audit = NoAudit
    /\ metrics = <<>>
    /\ calc \in {[NoCalc EXCEPT !.pc = "scores", !.semantic_score = s,
                                !.llm_score = j, !.semantic_weight = w] :
                    s \in CombineScoreValues, j \in CombineScoreValues,
                    w \in CombineWeights}
               \cup {[NoCalc EXCEPT !.pc = "embeddings", !.embedding1 = a,
                                    !.embedding2 = b] :
                        a \in Embeddings, b \in Embeddings}

\* combine_scores(semantic_score, llm_score, semantic_weight)
CombineScores ==
    /\ calc.pc = "scores"
    /\ calc' = [calc EXCEPT
                   !.pc = "returned", !.op = "combine_scores",
                   !.out = [raised |-> FALSE,
                            value |-> combine_scores(calc.semantic_score,
                                          calc.llm_score, calc.semantic_weight)]]
    /\ UNCHANGED <<rows, libs, learnerVars, raceVars, scoreVars, appVars,
                   client, embedder, audit, metrics>>

\* SimilarityCalculator.cosine_similarity(embedding1, embedding2)
CosineSimilarity ==
    /\ calc.pc = "embeddings"
    /\ calc' = [calc EXCEPT
                   !.pc = "returned", !.op = "cosine_similarity",
                   !.out = cosine_similarity(calc.embedding1, calc.embedding2)]
    /\ UNCHANGED <<rows, libs, learnerVars, raceVars, scoreVars, appVars,
                   client, embedder, audit, metrics>>

\* SimilarityCalculator.calculate_match_score(resume_embedding, job_embedding)
CalculateMatchScore ==
    /\ calc.pc = "embeddings"
    /\ calc' = [calc EXCEPT
                   !.pc = "returned", !.op = "calculate_match_score",
                   !.out = calculate_match_score(calc.embedding1, calc.embedding2)]
    /\ UNCHANGED <<rows, libs, learnerVars, raceVars, scoreVars, appVars,
                   client, embedder, audit, metrics>>

NextCalc == CombineScores \/ CosineSimilarity \/ CalculateMatchScore

SpecCalc == InitCalc /\ [][NextCalc]_vars

(***************************************************************************)
NonNegative(w) == \A k \in WeightKeySet : RLe(RInt(0), w[k])

SumsToOne(w) == RLe(RAbs(RSub(SumValues(w), RInt(1))), R(1, 1000000))

\* C1: after any sequence of update_weights calls (either strategy, batches
\* of any size, learning rates in (0,1], any scope) every stored weight vector
\* has four components >= 0 whose sum is within 1e-6 of 1.
C1_StoredWeightsNormalized ==
    \A i \in 1..Len(rows) : NonNegative(rows[i].w) /\ SumsToOne(rows[i].w)

\* C1 witness: a stored vector that two updates have written, the last one by
\* the rule-based strategy, and that is no longer the default vector.
C1_Witness ==
    /\ last.op = "update_weights" /\ last.path = "fallback"
    /\ \E i \in 1..Len(rows) :
          rows[i].iteration_count = 2 /\ rows[i].w # DEFAULT_WEIGHTS

\* The resolution order C2 states: exact scope, then (recruiter, *),
\* then (*, job), then the global record, then the default vector.
ChainResolved(tbl, recruiter_id, job_id) ==
    LET has(r, j) == \E i \in 1..Len(tbl) :
                         tbl[i].recruiter_id = r /\ tbl[i].job_id = j
        at(r, j) == tbl[Min({i \in 1..Len(tbl) :
                         tbl[i].recruiter_id = r /\ tbl[i].job_id = j})].w
    IN  IF has(recruiter_id, job_id) THEN at(recruiter_id, job_id)
        ELSE IF has(recruiter_id, NULL) THEN at(recruiter_id, NULL)
        ELSE IF has(NULL, job_id) THEN at(NULL, job_id)
        ELSE IF has(NULL, NULL) THEN at(NULL, NULL)
        ELSE DEFAULT_WEIGHTS

\* C2: get_weights(recruiter_id, job_id) returns the first stored vector in
\* the order exact, (recruiter, *), (*, job), global, and the default vector
\* only when none of them is stored.
C2_ResolutionOrder ==
    last.op = "get_weights" =>
        last.ret = ChainResolved(rows, last.recruiter_id, last.job_id)

\* C4: update_weights with an empty batch or a single sample writes nothing
\* (the table is as it was before the call) and returns what get_weights
\* returns for the requested scope.
C4_TooFewWritesNothing ==
    (last.op = "update_weights" /\ last.n < 2) =>
        /\ rows = last.before
        /\ last.ret = get_weights(last.before, last.recruiter_id, last.job_id)

\* C4 witness: a one-sample call for a scope that already holds a learned
\* vector.
C4_Witness ==
    /\ last.op = "update_weights" /\ last.n = 1
    /\ First(rows, last.recruiter_id, last.job_id) # 0
    /\ last.ret # DEFAULT_WEIGHTS

\* C5: whenever update_weights for a scope persists and returns a new vector
\* (regression or rule-based strategy), get_weights for the same scope right
\* after the call returns exactly that vector.
C5_RoundTrip ==
    (last.op = "update_weights" /\ last.saved) =>
        get_weights(rows, last.recruiter_id, last.job_id) = last.ret

(***************************************************************************)
(* Properties of concurrent updates (specification SpecRace).              *)
(***************************************************************************)
IterationOf(tbl, recruiter_id, job_id) ==
    IF First(tbl, recruiter_id, job_id) = 0 THEN 0
    ELSE tbl[First(tbl, recruiter_id, job_id)].iteration_count

\* The table after the request of worker p and then the request of worker q
\* have run one after the other, from table tbl.
Serial(tbl, p, q) ==
    LET run(t, x) ==
            update_weights(t, RaceBatch, procs[x].recruiter_id, procs[x].job_id,
                           procs[x].learning_rate, libs, procs[x].fit, TRUE).rows
    IN  run(run(tbl, p), q)

\* Both workers have finished a regression update of the same scope, and each
\* began before the other had committed.
RacedSameScope ==
    /\ procs[1].pc = "done" /\ procs[2].pc = "done"
    /\ procs[1].plan.path = "regression" /\ procs[2].plan.path = "regression"
    /\ procs[1].recruiter_id = procs[2].recruiter_id
    /\ procs[1].job_id = procs[2].job_id
    /\ procs[1].seen = procs[2].seen

\* C3: two concurrent update_weights calls for one scope are serialized: the
\* stored vector is the one some sequential order of the two updates gives,
\* and the scope's iteration_count has grown by 2.
C3_NoLostUpdate ==
    RacedSameScope =>
        LET r == procs[1].recruiter_id
            j == procs[1].job_id
        IN  /\ \E t \in {Serial(procs[1].seen, 1, 2), Serial(procs[1].seen, 2, 1)} :
                  get_weights(rows, r, j) = get_weights(t, r, j)
            /\ IterationOf(rows, r, j) = IterationOf(procs[1].seen, r, j) + 2

(***************************************************************************)
(* Properties of calculate_scores (specification SpecScore).               *)
(***************************************************************************)
Returned == scoring.pc = "returned" /\ ~scoring.out.raised

\* the documented formula on the components of a response
Formula(out, weights) ==
    Round2(WeightedOverall(out.skill_score, out.experience_score,
                           out.education_score, out.match_score, weights))

\* C7: with a Weight Store at hand, overall_score is hybrid_skill*skill_weight
\* + hybrid_experience*experience_weight + education_score*education_weight +
\* hybrid_match*semantic_weight with the vector resolved for the scope, and
\* the same formula with the defaults 0.4, 0.3, 0.1, 0.2 when reading the
\* store raises.
C7_OverallFormula ==
    (Returned /\ scoring.in.use_adaptive_weights /\ scoring.in.db # "none") =>
        scoring.out.overall_score =
            Formula(scoring.out,
                    IF scoring.in.db = "ok"
                    THEN get_weights(rows, scoring.in.recruiter_id, scoring.in.job_id)
                    ELSE DEFAULT_WEIGHTS)

InRange(score) == RLe(RInt(0), score) /\ RLe(score, RInt(100))

\* C9: every score of the response, those of score_breakdown included, lies
\* in [0, 100], whatever the features, the embeddings, the text the reasoning
\* service returned and the stored weights.
C9_ScoresInRange ==
    Returned =>
        /\ InRange(scoring.out.match_score)
        /\ InRange(scoring.out.skill_score)
        /\ InRange(scoring.out.experience_score)
        /\ InRange(scoring.out.education_score)
        /\ InRange(scoring.out.overall_score)
        /\ \A k \in {"match", "skill", "experience"} :
              /\ InRange(scoring.out.score_breakdown.semantic[k])
              /\ InRange(scoring.out.score_breakdown.hybrid[k])
        /\ \A k \in {"overall", "skill", "experience"} :
              InRange(scoring.out.score_breakdown.llm[k])

\* No reasoning result was obtained: no client, an error on every attempt, or
\* a response that is not structured data and in which the salvage finds no
\* score field.
NoReasoningResult(in) ==
    \/ ~in.use_llm
    \/ chat_completion(in.chat).raised
    \/ chat_completion(in.chat).response.kind = "json_value"
    \/ /\ chat_completion(in.chat).response.kind = "text"
       /\ chat_completion(in.chat).response.overall_score = NoMatch
       /\ chat_completion(in.chat).response.experience_score = NoMatch
       /\ chat_completion(in.chat).response.skill_score = NoMatch

\* C10: whatever the embedding and reasoning services do, calculate_scores
\* returns a response and does not raise, and the response's llm `available`
\* flag is false whenever no reasoning result was obtained.
C10_DegradesWithFlag ==
    scoring.pc = "returned" =>
        /\ ~scoring.out.raised
        /\ NoReasoningResult(scoring.in) =>
               ~scoring.out.score_breakdown.llm.available

(***************************************************************************)
(* Properties of the application (specification SpecApp).                  *)
(***************************************************************************)
\* C6: once a vector is stored for the scope of a job, every scoring an entry
\* point (apply_to_job, score_applicant) makes for a candidate of that job
\* computes overall_score with the stored vector.
C6_ScoringUsesStoredWeights ==
    (scored.op # "none" /\ scored.stored # None /\ ~scored.out.raised) =>
        scored.out.overall_score = Formula(scored.out, scored.stored[1])

SampleScores(e) ==
    <<e.ai_score, e.skill_score, e.experience_score, e.education_score,
      e.semantic_score>>

\* C8: the sample collect_feedback_data returns for an application keeps the
\* scores (overall, skill, experience, education, semantic) it had when the
\* decision was recorded, whatever re-scoring or repeated decision follows.
C8_SampleFrozenAtDecision ==
    \A a \in AppIds :
        atDecision[a] # None =>
            \A i \in 1..Len(collect_feedback_data(applications, applicants, recent,
                                                  TheJob.recruiter_id, TheJob.id, 20)) :
                LET e == collect_feedback_data(applications, applicants, recent,
                                               TheJob.recruiter_id, TheJob.id, 20)[i]
                IN  e.application_id = a =>
                        SampleScores(e) = SampleScores(atDecision[a][1])

\* the first attempt of the run that succeeded, 0 when none did
FirstOk(outcomes) ==
    IF \E i \in 1..max_retries : outcomes[i].ok
    THEN Min({i \in 1..max_retries : outcomes[i].ok})
    ELSE 0

ChatSafe ==
    /\ client.created <= max_retries
    /\ Len(client.slept) = client.attempt
    /\ \A i \in 1..Len(client.slept) : client.slept[i] = retry_delay * 2 ^ (i - 1)
    /\ (client.pc \in {"returned", "done"} /\ ~client.raised) =>
          /\ FirstOk(client.outcomes) = client.created
          /\ client.response = client.outcomes[client.created].response
          /\ Len(client.slept) = client.created - 1
    /\ client.raised =>
          /\ FirstOk(client.outcomes) = 0
          /\ client.created = max_retries
          /\ client.slept = <<1, 2>>
    /\ (client.pc = "done" /\ client.raised) =>
          client.judgment = Judgment(50, 50, 50, FALSE)

\* C11: a chat_completion call makes at most 3 attempts, returns the first
\* successful response without a further attempt, waits retry_delay * 2^attempt
\* (1 s, then 2 s) between attempts, and after the third failure raises to
\* the evaluator, which returns the neutral judgment with llm_available
\* false; every call ends.
C11_BoundedRetry == [](client.pc # "idle" => ChatSafe) /\ <>(client.pc = "done")

\* C11: a call that failed twice, slept 1 s and 2 s, and succeeded the third time
C11_Witness ==
    /\ client.pc = "done"
    /\ client.slept = <<1, 2>>
    /\ ~client.raised
    /\ client.judgment.llm_available

\* C12: an embedding call made during scoring is retried up to 3 attempts
\* before the zero vector is used: when one of the three attempts would
\* succeed, the call returns the embedding of the first that does, and the
\* zero vector is returned for a text only after three failed attempts.
C12_EmbeddingRetried ==
    (embedder.pc = "returned" /\ embedder.text # "") =>
        IF FirstOk(embedder.outcomes) # 0
        THEN /\ embedder.created = FirstOk(embedder.outcomes)
             /\ embedder.embedding =
                    embedder.outcomes[FirstOk(embedder.outcomes)].embedding
        ELSE /\ embedder.created = max_retries
             /\ embedder.embedding = ZeroEmbedding

ScoreFields == {"overall_score", "experience_score", "skill_score"}

\* the evaluator obtained a response and turned it into a judgment
Judged == client.pc = "done" /\ ~client.raised

\* C13: when the response is not JSON and the patterns of the salvage find
\* none of the score fields, the judgment has 50 in every numeric field and
\* llm_available false.
C13_NothingSalvagedUnavailable ==
    (/\ Judged
     /\ client.response.kind = "text"
     /\ \A f \in ScoreFields : client.response[f].t = "nomatch")
        => client.judgment = Judgment(50, 50, 50, FALSE)

\* C14: every numeric field of a judgment made from a response is an integer
\* in 0..100, whether the response parsed as JSON or was salvaged by the
\* patterns, and is 50 where the field is missing or does not parse.
C14_JudgmentFieldsInRange ==
    Judged =>
        \A f \in ScoreFields :
            /\ client.judgment[f] \in 0..100
            /\ client.response[f].t \in {"missing", "str", "nomatch"}
                  => client.judgment[f] = 50

(***************************************************************************)
(* The arithmetic of the regression strategy (specification Spec).         *)
(***************************************************************************)
KeyOf ==
    <<"skill_weight", "experience_weight", "education_weight",
      "semantic_similarity_weight">>

\* C16: the vector a regression update persists for its scope is
\* renormalize(current*(1 - learning_rate) + learned*learning_rate), where
\* learned[i] = |coef[i]| / sum |coef| (the same for a coefficient vector of
\* opposite signs) and learned = (0.4, 0.3, 0.1, 0.2) when all coefficients
\* are 0; with learning_rate 1 the persisted vector is learned itself.
C16_RegressionBlend ==
    (last.op = "update_weights" /\ last.path = "regression") =>
        LET current == get_weights(last.before, last.recruiter_id, last.job_id)
            at == First(rows, last.recruiter_id, last.job_id)
            coef == last.fit.coef
            rate == last.learning_rate
            total == Abs(coef[1]) + Abs(coef[2]) + Abs(coef[3]) + Abs(coef[4])
            learned(i) ==
                IF total = 0 THEN <<R(4, 10), R(3, 10), R(1, 10), R(2, 10)>>[i]
                ELSE R(Abs(coef[i]), total)
            blended(i) ==
                RAdd(RMul(current[KeyOf[i]], RSub(RInt(1), rate)),
                     RMul(learned(i), rate))
            sum == RAdd(RAdd(blended(1), blended(2)), RAdd(blended(3), blended(4)))
            negated == [last.fit EXCEPT !.coef = [i \in 1..4 |-> -coef[i]]]
        IN  /\ at # 0
            /\ \A i \in 1..4 : rows[at].w[KeyOf[i]] = RDiv(blended(i), sum)
            /\ rate = RInt(1) => \A i \in 1..4 : rows[at].w[KeyOf[i]] = learned(i)
            /\ rows = update_weights(last.before, last.feedback_data,
                                     last.recruiter_id, last.job_id, rate, libs,
                                     negated, TRUE).rows

\* C16 witness: a regression update with learning_rate 1 and coefficients of
\* mixed signs has replaced a stored vector by the learned one
C16_Witness ==
    /\ last.op = "update_weights" /\ last.path = "regression"
    /\ last.learning_rate = RInt(1)
    /\ last.fit.coef = <<3, -1, 0, 1>>
    /\ IterationOf(rows, last.recruiter_id, last.job_id) = 2
    /\ rows[First(rows, last.recruiter_id, last.job_id)].w
           = Weights(R(3, 5), R(1, 5), R(0, 1), R(1, 5))

\* C17: every update_weights call that persists a vector increases the
\* iteration_count of the scope it was called for by exactly 1, a scope
\* written for the first time getting 1.
C17_IterationCountsUpdates ==
    (last.op = "update_weights" /\ last.saved) =>
        IterationOf(rows, last.recruiter_id, last.job_id)
            = IterationOf(last.before, last.recruiter_id, last.job_id) + 1

(***************************************************************************)
(* Properties of update_weights under faults (specification SpecFault).    *)
(***************************************************************************)
Malformed(feedback_data) ==
    \E i \in 1..Len(feedback_data) :
        \E field \in DOMAIN Share \cup {"ai_score"} : ~Numeric(feedback_data[i][field])

\* C15: a call of update_weights with two samples or more whose signals are
\* malformed or missing (absent keys, None, strings), or whose regression
\* step or persistence step fails, does not raise: it returns the current
\* weights and leaves the store unchanged.
C15_DegradesToUnchanged ==
    (/\ last.op = "update_weights"
     /\ last.n >= 2
     /\ \/ Malformed(last.feedback_data)
        \/ (libs.sklearn /\ ~last.fit.ok)
        \/ ~last.commits)
        => /\ last.path # "raised"
           /\ last.ret = get_weights(last.before, last.recruiter_id, last.job_id)
           /\ rows = last.before

\* C18: learning_rate must be in (0, 1]: a call of update_weights with
\* learning_rate <= 0 or > 1 is not applied, it writes nothing to the store.
C18_RateOutsideRangeNotApplied ==
    (/\ last.op = "update_weights"
     /\ (RLe(last.learning_rate, RInt(0)) \/ RLt(RInt(1), last.learning_rate)))
        => rows = last.before

(***************************************************************************)
(* Properties of the fairness audit (specification SpecAudit).             *)
(***************************************************************************)
\* C19: no fairness audit, through the checker or the endpoint, creates or
\* modifies a weight record, whatever updates and scoring calls run before
\* and after it; a scoring call leaves the store as it is, too.
C19_AuditsLeaveStore ==
    [][(audit' # audit \/ metrics' # metrics \/ scoring' # scoring)
          => rows' = rows]_vars

\* C19 witness: the endpoint has audited between two weight updates and
\* logged its metric, and the scoring call has returned
C19_Witness ==
    /\ audit.op = "endpoint" /\ audit.status = "returned"
    /\ audit.calls = 1 /\ calls = 2
    /\ Len(metrics) >= 1
    /\ Len(rows) >= 1
    /\ scoring.pc = "returned"

LacksKey(candidate_data) ==
    \E i \in 1..Len(candidate_data) :
        ~HasKey(candidate_data[i], "group") \/ ~HasKey(candidate_data[i], "overall_score")

\* C20: an audit over fewer than 2 records, or over records of which some
\* lack the group key or the score key, returns (it does not raise, the
\* request does not fail) a result with bias_detected false, bias_magnitude 0,
\* no group analysis, and a message.
C20_InsufficientDataReported ==
    (/\ audit.op \in {"audit_fairness", "endpoint"}
     /\ audit.status # "http_404"
     /\ (Len(audit.records) < 2 \/ LacksKey(audit.records)))
        => /\ audit.status = "returned"
           /\ ~audit.result.bias_detected
           /\ audit.result.bias_magnitude = RInt(0)
           /\ ~audit.result.analysed
           /\ audit.result.message

(***************************************************************************)
(* Properties of the fairness checker (specification SpecChecker).         *)
(***************************************************************************)
\* the records all have a group and a numeric score
Complete(candidate_data) ==
    \A i \in 1..Len(candidate_data) :
        /\ HasKey(candidate_data[i], "group")
        /\ HasKey(candidate_data[i], "overall_score")
        /\ Numeric(candidate_data[i].overall_score)

\* the mean of the scores of group g, counted on the records themselves
MeanOfGroup(candidate_data, g) ==
    LET of == {i \in 1..Len(candidate_data) : candidate_data[i].group = <<g>>}
        sum[S \in SUBSET of] ==
            IF S = {} THEN RInt(0)
            ELSE LET i == CHOOSE x \in S : TRUE
                 IN  RAdd(candidate_data[i].overall_score, sum[S \ {i}])
    IN  RDiv(sum[of], RInt(Cardinality(of)))

\* highest group mean - lowest group mean
Spread(candidate_data) ==
    LET means == {MeanOfGroup(candidate_data, candidate_data[i].group[1]) :
                     i \in 1..Len(candidate_data)}
        highest == CHOOSE m \in means : \A x \in means : RLe(x, m)
        lowest == CHOOSE m \in means : \A x \in means : RLe(m, x)
    IN  RSub(highest, lowest)

\* C21: an audit_fairness call over 2 or more records, each with its group
\* and its score, with pandas installed, reports as bias_magnitude the
\* highest group mean minus the lowest (to the 2 decimals of the report),
\* and reports bias_detected true exactly when that reported magnitude is
\* strictly above the threshold.
C21_MagnitudeAndDetection ==
    (/\ audit.op = "audit_fairness" /\ audit.status = "returned"
     /\ audit.pandas
     /\ Len(audit.records) >= 2 /\ Complete(audit.records))
        => /\ audit.result.bias_magnitude = Round2(Spread(audit.records))
           /\ audit.result.bias_detected
                 <=> RLt(audit.limit, audit.result.bias_magnitude)

OneGroup(candidate_data) == Cardinality(Groups(candidate_data, "group")) = 1

ZeroVariance(candidate_data) ==
    \A i, j \in 1..Len(candidate_data) :
        candidate_data[i].overall_score = candidate_data[j].overall_score

\* the texts that say the data does not suffice for an analysis
InsufficiencyTexts == {"need_two", "missing_columns", "insufficient"}

\* C22: an audit_fairness call over 2 or more complete records that are all
\* of one group, or all have the same score, returns (it does not raise)
\* with bias_detected false and a message that says the data is
\* insufficient, whatever the threshold.
C22_DegenerateInputNeutral ==
    (/\ audit.op = "audit_fairness"
     /\ audit.pandas
     /\ Len(audit.records) >= 2 /\ Complete(audit.records)
     /\ (OneGroup(audit.records) \/ ZeroVariance(audit.records)))
        => /\ audit.status = "returned"
           /\ ~audit.result.bias_detected
           /\ audit.result.text \in InsufficiencyTexts

\* C23: the statistical_significance of every result of audit_fairness is a
\* number from 0 to 1.
C23_SignificanceInUnitInterval ==
    (audit.op = "audit_fairness" /\ audit.status = "returned")
        => /\ Numeric(audit.result.statistical_significance)
           /\ RLe(RInt(0), audit.result.statistical_significance)
           /\ RLe(audit.result.statistical_significance, RInt(1))

\* the number of records of the largest group
LargestGroup(candidate_data) ==
    LET size(g) == Cardinality({i \in 1..Len(candidate_data) :
                                   candidate_data[i].group = <<g>>})
    IN  CHOOSE n \in 0..Len(candidate_data) :
            /\ \E g \in Groups(candidate_data, "group") : size(g) = n
            /\ \A g \in Groups(candidate_data, "group") : size(g) <= n

\* C24: when an audit_fairness call analyses 2 or more complete records and
\* no group has 2 samples, or scipy is not installed, the
\* statistical_significance is min(0.95, |mean_diff| / 100) of the two
\* extreme group means (to the 3 decimals of the report).
C24_ProxyWhenNoTest ==
    (/\ audit.op = "audit_fairness" /\ audit.status = "returned"
     /\ audit.pandas
     /\ Len(audit.records) >= 2 /\ Complete(audit.records)
     /\ (LargestGroup(audit.records) < 2 \/ ~audit.scipy))
        => audit.result.statistical_significance =
              Round3(RMin(R(95, 100), RDiv(Spread(audit.records), RInt(100))))

\* the pass rate of group g at 70, counted on the records themselves
RateAt70(candidate_data, g) ==
    R(Cardinality({i \in 1..Len(candidate_data) :
                      /\ candidate_data[i].group = <<g>>
                      /\ RLe(RInt(70), candidate_data[i].overall_score)}),
      Cardinality({i \in 1..Len(candidate_data) : candidate_data[i].group = <<g>>}))

\* the data of test_dir_metric
TestedData == <<Scored("a", 85), Scored("a", 80), Scored("b", 70), Scored("b", 65)>>

WeightedAverage(s, j, w) == RAdd(RMul(w, s), RMul(RSub(RInt(1), w), j))

\* x has at most 2 decimals
TwoDecimals(x) == 100 % x[2] = 0

\* C26 as stated: combine_scores(s, j, w) is w*s + (1-w)*j rounded to 2
\* decimals, and combine_scores(s, j, 1) is s and combine_scores(s, j, 0) is
\* j, for all s and j from 0 to 100.
C26_CombineAsStated ==
    calc.op = "combine_scores"
        => /\ calc.out.value = Round2(WeightedAverage(calc.semantic_score,
                                          calc.llm_score, calc.semantic_weight))
           /\ calc.semantic_weight = RInt(1) => calc.out.value = calc.semantic_score
           /\ calc.semantic_weight = RInt(0) => calc.out.value = calc.llm_score

\* C26: combine_scores(s, j, w) is w*s + (1-w)*j rounded to 2 decimals;
\* combine_scores(s, j, 1) is s rounded to 2 decimals (s itself when s has
\* no more than 2) and combine_scores(s, j, 0) is j rounded to 2 decimals;
\* combine_scores(80, 60, 0.5) is 70.
C26_CombineRounded ==
    calc.op = "combine_scores"
        => /\ calc.out.value = Round2(WeightedAverage(calc.semantic_score,
                                          calc.llm_score, calc.semantic_weight))
           /\ calc.semantic_weight = RInt(1)
                 => /\ calc.out.value = Round2(calc.semantic_score)
                    /\ TwoDecimals(calc.semantic_score)
                          => calc.out.value = calc.semantic_score
           /\ calc.semantic_weight = RInt(0)
                 => /\ calc.out.value = Round2(calc.llm_score)
                    /\ TwoDecimals(calc.llm_score)
                          => calc.out.value = calc.llm_score
           /\ (/\ calc.semantic_score = RInt(80) /\ calc.llm_score = RInt(60)
               /\ calc.semantic_weight = R(1, 2))
                 => calc.out.value = RInt(70)

\* C26 witness: combine_scores(33.333, 80, 1) has returned 33.33
C26_Witness ==
    /\ calc.op = "combine_scores"
    /\ calc.semantic_score = R(33333, 1000) /\ calc.llm_score = RInt(80)
    /\ calc.semantic_weight = RInt(1)
    /\ calc.out.value = R(3333, 100)

\* an embedding that is empty or holds zeros only
EmptyOrZero(embedding) ==
    embedding = <<>> \/ \A i \in 1..Len(embedding) : embedding[i] = 0

\* C27: calculate_match_score returns 0 whenever either embedding is empty
\* or a zero vector.
C27_NoEmbeddingScoresZero ==
    (/\ calc.op = "calculate_match_score"
     /\ (EmptyOrZero(calc.embedding1) \/ EmptyOrZero(calc.embedding2)))
        => ~calc.out.raised /\ calc.out.value = RInt(0)

\* C28: cosine_similarity raises on two embeddings of different lengths,
\* also when exactly one of them is empty, and returns 0.0 on embeddings of
\* the same length of which one has norm 0.
C28_MismatchRaises ==
    calc.op = "cosine_similarity"
        => /\ Len(calc.embedding1) # Len(calc.embedding2) => calc.out.raised
           /\ (/\ Len(calc.embedding1) = Len(calc.embedding2)
               /\ (EmptyOrZero(calc.embedding1) \/ EmptyOrZero(calc.embedding2)))
                 => ~calc.out.raised /\ calc.out.value = RInt(0)

(***************************************************************************)
(* Scopes of the Weight Store (specifications Spec and SpecRace).          *)
(***************************************************************************)
\* C29: an update_weights call for scope (recruiter_id, job_id) leaves the
\* record of every other scope, the global one included, as it was before
\* the call, and creates no record for another scope, whichever strategy
\* made the update.
C29_OtherScopesUntouched ==
    last.op = "update_weights" =>
        \A i \in 1..Len(rows) :
            (rows[i].recruiter_id # last.recruiter_id \/ rows[i].job_id # last.job_id)
                => i <= Len(last.before) /\ rows[i] = last.before[i]

\* C30: the scoring_weights table holds at most one record per scope key
\* (recruiter_id, job_id), also after two concurrent first updates of one
\* scope.
C30_OneRecordPerScope ==
    \A i, j \in 1..Len(rows) :
        (rows[i].recruiter_id = rows[j].recruiter_id /\ rows[i].job_id = rows[j].job_id)
            => i = j

====
